---- MODULE Spec2Model ----
(***************************************************************************)
(* Meetify: the signaling gateway (backend/src/signaling) and the          *)
(* per-peer negotiation logic of the useWebRTC hook (frontend/src/hooks).  *)
(*                                                                         *)
(* SpecGateway     the gateway alone, driven by arbitrary client messages. *)
(* SpecMembership  its connection and room handlers, with their history.   *)
(* SpecNamespace   the relay handlers against rooms named like socket ids.  *)
(* SpecChat        the chat handler with the gateway's clock.              *)
(* SpecMediaState  the gateway receiving the hook's media-state events.    *)
(* SpecPeers       two pages running the hook, connected through the       *)
(*                 gateway; each page reads its events in order.           *)
(* SpecNegotiation the same pages with no ice candidates travelling.       *)
(* SpecRouting     the first negotiation of a link with its candidates.    *)
(* SpecFailure     the negotiation with calls the browser may reject.      *)
(* SpecAnswers     a offering and ab answering, with a's source swaps and  *)
(*                 ab's candidates and late messages.                      *)
(* SpecMedia       the media controls of a page (mic, camera, screen       *)
(*                 share) with its peer joining and leaving.               *)
(***************************************************************************)
EXTENDS Integers, Sequences, FiniteSets, TLC

(***************************************************************************)
(* Identifiers.  A socket id is a string; Chars gives its UTF-16 code      *)
(* units, which is what the JavaScript string comparison reads.            *)
(***************************************************************************)
\* The pool of socket ids.  The transport mints a fresh id for every
\* connection; the gateway keeps nothing about a closed connection, so the
\* pool hands a closed connection's id out again.
SocketIds == {"a", "ab", "b"}

RoomIds == {"r1", "r2"}

UserNames == {"Ann", "Bob"}

\* The values a client may put into targetSocketId: the id of a connection,
\* open or closed, or any other string, such as the name of a room.
TargetIds == SocketIds \cup RoomIds

\* The principal (token payload's sub) of each connection; principals repeat.
SubOf(sid) == IF sid = "b" THEN "p2" ELSE "p1"

\* The display name the client of each connection sends with join-room.
NameOf(sid) == IF sid = "ab" THEN "Bob" ELSE "Ann"

VARIABLES
    status,        \* gateway: socket id -> "open" | "closed" (no such connection)
    participants,  \* gateway: the participants Map, in insertion order
    sioRooms,      \* gateway: socket id -> the Socket.IO rooms the socket is in
    lastOp,        \* the handler the gateway ran last, with its arguments
    emitted,       \* the deliveries that handler made: a set of [to, msg]
    leftCount,     \* user-left events emitted for a socket since its last join-room
    joinOrder,     \* the admitted sockets, in the order of their latest join-room
    told,          \* socket id -> the sockets it was told are present and not yet told left
    stage,         \* hook: client -> "idle" | "joining" | "joined" | "left" | "closed"
    inbox,         \* client -> the events the gateway sent it, not yet handled
    peerConnections,   \* hook: client -> peer -> the RTCPeerConnection of the link
    chain,         \* client -> peer -> the operations pending on that connection
    deadReneg,     \* client -> peer -> triggerRenegotiation calls whose connection closed
    makingOffer,   \* hook: client -> peer -> "absent" | "true" | "false"
    ignoreOffer,   \* hook: client -> peer -> "absent" | "true" | "false"
    pendingCandidates, \* hook: client -> peer -> the queue of buffered candidates
    accepted,      \* client -> peer -> candidates the handler took in, in receipt order
    applied,       \* client -> peer -> candidates given to addIceCandidate, in order
    gone,          \* client -> peer -> user-left for the peer was handled
    politeLog,     \* client -> peer -> isPolite as computed at each offer of the link
    rolledBack,    \* client -> peer -> an own offer was rolled back for the peer's
    candSent,      \* ice candidates the connections produced
    negotiations,  \* client -> negotiationneeded events fired
    replaced,      \* track replacements done
    late,          \* messages emitted by a connection after it left its room
    isMicOn,       \* hook: client -> the isMicOn state
    isCamOn,       \* hook: client -> the isCamOn state
    isScreenSharing,   \* hook: client -> the isScreenSharing state
    localStream,   \* hook: client -> localStreamRef.current: null, or its tracks
    senders,       \* client -> peer -> the senders of the connection, with their tracks
    captures,      \* client -> the screen tracks getDisplayMedia gave, by number
    acquiring,     \* client -> the calls waiting for getUserMedia / getDisplayMedia
    replacing,     \* client -> the calls waiting for replaceTrack, in call order
    devices,       \* client -> "granted" | "denied": what getUserMedia will do
    errors,        \* client -> console.error calls of the controls' catch blocks
    mediaOps,      \* uses of the media controls, force-mutes and ended captures
    mediaLog       \* socket id -> the media events the connection emitted, in order

gwVars == <<status, participants, sioRooms, lastOp, emitted>>

histVars == <<leftCount, joinOrder, told>>

hookVars == <<stage, inbox, peerConnections, chain, deadReneg, makingOffer, ignoreOffer,
              pendingCandidates, accepted, applied, gone, politeLog, rolledBack,
              candSent, negotiations, replaced, late>>

flagVars == <<isMicOn, isCamOn, isScreenSharing>>

taskVars == <<captures, acquiring, replacing, devices, errors, mediaOps>>

mediaVars == <<flagVars, localStream, senders, taskVars, mediaLog>>

vars == <<gwVars, histVars, hookVars, mediaVars>>

(***************************************************************************)
(* Wire messages, as delivered to a client.                                *)
(***************************************************************************)
Msg(ev, sid, userId, userName, list, n, flag) ==
    [ev |-> ev, sid |-> sid, userId |-> userId, userName |-> userName,
     list |-> list, n |-> n, flag |-> flag]

UserEvent(ev, sid, userId, userName) == Msg(ev, sid, userId, userName, <<>>, 0, FALSE)

RelayEvent(ev, from, n) == Msg(ev, from, "", "", <<>>, n, FALSE)

NoOp == [op |-> "init", client |-> "", arg |-> "", n |-> 0]

Op(op, client, arg, n) == [op |-> op, client |-> client, arg |-> arg, n |-> n]

(***************************************************************************)
(* The participants Map: socketId -> {roomId, userId, userName}.  A        *)
(* JavaScript Map iterates in insertion order, and set() on a key that is  *)
(* present keeps the key's place.                                          *)
(***************************************************************************)
Range(seq) == {seq[i] : i \in 1..Len(seq)}

PHas(sid) == \E i \in 1..Len(participants) : participants[i].socketId = sid

PGet(sid) == participants[CHOOSE i \in 1..Len(participants) : participants[i].socketId = sid]

PSet(sid, info) ==
    LET entry == [socketId |-> sid, roomId |-> info.roomId,
                  userId |-> info.userId, userName |-> info.userName]
    IN  IF PHas(sid)
        THEN [i \in 1..Len(participants) |->
                 IF participants[i].socketId = sid THEN entry ELSE participants[i]]
        ELSE Append(participants, entry)

PDelete(sid) == SelectSeq(participants, LAMBDA e : e.socketId # sid)

\* membersOf(roomId): the sockets the map records in the room.
MembersOf(roomId) == {e.socketId : e \in {x \in Range(participants) : x.roomId = roomId}}

(***************************************************************************)
(* Socket.IO rooms.  A connected socket is in the room named by its own    *)
(* id; join() adds a room; only the transport's close takes rooms away.    *)
(* server.to(x) reaches every socket in room x, client.to(x) every such    *)
(* socket but the client.                                                  *)
(***************************************************************************)
InRoom(name) == {s \in SocketIds : status[s] = "open" /\ name \in sioRooms[s]}

ServerTo(name) == InRoom(name)

ClientTo(client, name) == InRoom(name) \ {client}

ToAll(recipients, msg) == {[to |-> s, msg |-> msg] : s \in recipients}

Bump(n) == IF n < 2 THEN n + 1 ELSE n

Without(seq, x) == SelectSeq(seq, LAMBDA y : y # x)

(***************************************************************************)
(* Gateway handlers.                                                       *)
(***************************************************************************)
\* Mutant of UserLeft: the entry is not deleted from the map.
UserLeftKeepsEntry(client) ==
    IF PHas(client)
    THEN /\ emitted' = ToAll(ClientTo(client, PGet(client).roomId),
                             UserEvent("user-left", client, PGet(client).userId,
                                       PGet(client).userName))
         /\ UNCHANGED participants
    ELSE /\ emitted' = {}
         /\ UNCHANGED participants

\* Mutant of UserLeft: without the guard on the map entry, user-left goes to
\* every other connection when the socket is in no room.
UserLeftUnguarded(client) ==
    /\ emitted' = ToAll(IF PHas(client) THEN ClientTo(client, PGet(client).roomId)
                                         ELSE ClientTo(client, client) \cup
                                              {s \in SocketIds \ {client} : status[s] = "open"},
                        UserEvent("user-left", client, SubOf(client), NameOf(client)))
    /\ participants' = PDelete(client)

\* handleDisconnect's body, shared by the transport close and leave-room.
UserLeft(client) ==
    IF PHas(client)
    THEN /\ emitted' = ToAll(ClientTo(client, PGet(client).roomId),
                             UserEvent("user-left", client, PGet(client).userId,
                                       PGet(client).userName))
         /\ participants' = PDelete(client)
    ELSE /\ emitted' = {}
         /\ UNCHANGED participants

\* Mutant of HandleConnection: the catch does not disconnect the client.
HandleConnectionNoDisconnect(client, tokenOk) ==
    /\ status[client] = "closed"
    /\ status' = [status EXCEPT ![client] = "open"]
    /\ sioRooms' = [sioRooms EXCEPT ![client] = {client}]
    /\ lastOp' = Op("connect", client, "", IF tokenOk THEN 1 ELSE 0)
    /\ emitted' = {}
    /\ UNCHANGED participants

\* handleConnection: verify the token; a bad one disconnects the client at once.
HandleConnection(client, tokenOk) ==
    /\ status[client] = "closed"
    /\ status' = [status EXCEPT ![client] = IF tokenOk THEN "open" ELSE "closed"]
    /\ sioRooms' = [sioRooms EXCEPT ![client] = IF tokenOk THEN {client} ELSE {}]
    /\ lastOp' = Op("connect", client, "", IF tokenOk THEN 1 ELSE 0)
    /\ IF tokenOk
       THEN /\ emitted' = {}
            /\ UNCHANGED participants
       ELSE UserLeft(client)

\* The transport closes: Socket.IO takes the socket out of its rooms, then
\* the gateway's handleDisconnect runs.
HandleDisconnect(client) ==
    /\ status[client] = "open"
    /\ status' = [status EXCEPT ![client] = "closed"]
    /\ sioRooms' = [sioRooms EXCEPT ![client] = {}]
    /\ lastOp' = Op("disconnect", client, "", 0)
    /\ UserLeft(client)

\* leave-room: handleDisconnect(client) on a socket that stays connected.
HandleLeaveRoom(client) ==
    /\ status[client] = "open"
    /\ lastOp' = Op("leave-room", client, "", 0)
    /\ UserLeft(client)
    /\ UNCHANGED <<status, sioRooms>>

\* Mutant of RoomParticipants: the entries are not filtered by room.
RoomParticipantsAllRooms(map, roomId, client) ==
    LET kept == SelectSeq(map, LAMBDA e : e.socketId # client)
    IN  [i \in 1..Len(kept) |->
            [socketId |-> kept[i].socketId, userId |-> kept[i].userId,
             userName |-> kept[i].userName]]

\* room-participants: the map's entries of the room, the joiner left out.
RoomParticipants(map, roomId, client) ==
    LET kept == SelectSeq(map, LAMBDA e : e.roomId = roomId /\ e.socketId # client)
    IN  [i \in 1..Len(kept) |->
            [socketId |-> kept[i].socketId, userId |-> kept[i].userId,
             userName |-> kept[i].userName]]

HandleJoinRoom(client, roomId, userName) ==
    /\ status[client] = "open"
    /\ sioRooms' = [sioRooms EXCEPT ![client] = @ \cup {roomId}]
    /\ participants' = PSet(client, [roomId |-> roomId, userId |-> SubOf(client),
                                     userName |-> userName])
    /\ emitted' =
         ToAll(ClientTo(client, roomId),
               UserEvent("user-joined", client, SubOf(client), userName))
         \cup
         ToAll({client},
               Msg("room-participants", "", "", "",
                   RoomParticipants(participants', roomId, client), 0, FALSE))
    /\ lastOp' = Op("join-room", client, roomId, 0)
    /\ UNCHANGED status

\* offer / answer / ice-candidate: forwarded to server.to(targetSocketId).
RelayKinds == {"offer", "answer", "ice-candidate"}

HandleRelay(kind, client, targetSocketId, n) ==
    /\ status[client] = "open"
    /\ emitted' = ToAll(ServerTo(targetSocketId), RelayEvent(kind, client, n))
    /\ lastOp' = Op(kind, client, targetSocketId, n)
    /\ UNCHANGED <<status, participants, sioRooms>>

\* notify-mute: force-mute{muted} to server.to(targetSocketId).
HandleMute(client, targetSocketId, muted) ==
    /\ status[client] = "open"
    /\ emitted' = ToAll(ServerTo(targetSocketId),
                        Msg("force-mute", "", "", "", <<>>, 0, muted))
    /\ lastOp' = Op("notify-mute", client, targetSocketId, IF muted THEN 1 ELSE 0)
    /\ UNCHANGED <<status, participants, sioRooms>>

\* An event that no @SubscribeMessage of the gateway names (media-state-change,
\* screen-share-start, screen-share-stop): no handler runs, nothing is kept
\* and nothing is emitted.
HandleUnsubscribed(ev, client, type, enabled) ==
    /\ status[client] = "open"
    /\ emitted' = {}
    /\ lastOp' = Op(ev, client, type, IF enabled THEN 1 ELSE 0)
    /\ UNCHANGED <<status, participants, sioRooms>>

\* Date.prototype.toISOString of an instant given in milliseconds since the
\* epoch, for the instants of the model.
ToISOString(ms) ==
    CASE ms = 1 -> "1970-01-01T00:00:00.001Z"
      [] ms = 2 -> "1970-01-01T00:00:00.002Z"
      [] ms = 9 -> "1970-01-01T00:00:00.009Z"
      [] OTHER  -> "Invalid Date"

\* The chat-message payload the gateway emits.
ChatEvent(message, userName, timestamp) ==
    [ev |-> "chat-message", message |-> message, userName |-> userName,
     timestamp |-> timestamp]

\* Mutant of HandleChatMessage: the timestamp is read from the payload.
HandleChatMessageClientTime(client, data, now) ==
    /\ status[client] = "open"
    /\ emitted' = ToAll(ServerTo(data.roomId),
                        ChatEvent(data.message, data.userName, ToISOString(data.stamp)))
    /\ lastOp' = Op("chat-message", client, data.roomId, now)
    /\ UNCHANGED <<status, participants, sioRooms>>

\* chat-message: one payload, stamped with the gateway's clock (now), to
\* server.to(data.roomId).  Of the client's payload only roomId, message and
\* userName are read.
HandleChatMessage(client, data, now) ==
    /\ status[client] = "open"
    /\ emitted' = ToAll(ServerTo(data.roomId),
                        ChatEvent(data.message, data.userName, ToISOString(now)))
    /\ lastOp' = Op("chat-message", client, data.roomId, now)
    /\ UNCHANGED <<status, participants, sioRooms>>

(***************************************************************************)
(* The useWebRTC hook.  Two pages run it, each on its own connection.      *)
(***************************************************************************)
Clients == {"a", "ab"}

TheRoom == "r1"

\* The UTF-16 code units of a socket id.
Chars(s) ==
    CASE s = "a"  -> <<97>>
      [] s = "ab" -> <<97, 98>>
      [] s = "b"  -> <<98>>
      [] OTHER    -> <<>>

\* x > y on JavaScript strings: the first differing code unit decides, and a
\* proper prefix is the smaller string.
StrGt(x, y) ==
    \E i \in 1..Len(x) :
        /\ \A j \in 1..(i - 1) : j <= Len(y) /\ x[j] = y[j]
        /\ (i > Len(y) \/ x[i] > y[i])

\* Mutant of IsPolite: only the first code unit is compared.
IsPoliteByFirstUnit(self, from) == Chars(self)[1] > Chars(from)[1]

\* isPolite = String(socket.id || '') > fromSocketId
IsPolite(self, from) == StrGt(Chars(self), Chars(from))

\* An RTCPeerConnection: its signaling state, the part it played in the
\* negotiation that completed last (which decides whether a remote
\* description is set), and whether the map holds it.
NoPc == [open |-> FALSE, sig |-> "stable", role |-> "none"]

NewPc == [open |-> TRUE, sig |-> "stable", role |-> "none"]

\* pc.remoteDescription && pc.remoteDescription.type
RemoteSet(pc) == pc.sig = "have-remote-offer" \/ pc.role # "none"

\* pc.localDescription is set: candidates are gathered from then on.
LocalSet(pc) == pc.sig = "have-local-offer" \/ pc.role # "none"

NoQueue == [has |-> FALSE, q |-> <<>>]

ToFlag(b) == IF b THEN "true" ELSE "false"

RenegOps == {"createOffer", "setLocalOffer"}

RenegsIn(ops) == Len(SelectSeq(ops, LAMBDA o : o \in RenegOps))

\* A MediaStreamTrack: its source and, for a screen track, the number of the
\* capture that gave it.
Track(src, id) == [src |-> src, id |-> id]

\* sender.track === null
NoTrack == Track("null", 0)

\* createSilentAudioTrack()
SilentTrack == Track("silent", 0)

\* createBlackVideoTrack()
BlackTrack == Track("black", 0)

\* getUserMedia({audio: true}).getAudioTracks()[0]
MicTrack == Track("mic", 0)

\* getUserMedia({video: true}).getVideoTracks()[0]
CameraTrack == Track("camera", 0)

\* getDisplayMedia(...).getVideoTracks()[0]
ScreenTrack(n) == Track("screen", n)

\* track.kind
KindOf(t) == IF t.src \in {"mic", "silent"} THEN "audio" ELSE "video"

\* localStreamRef.current: null, or a MediaStream with its tracks in order.
NoStream == [has |-> FALSE, tracks |-> <<>>]

Stream(tracks) == [has |-> TRUE, tracks |-> tracks]

\* stream.getAudioTracks() / stream.getVideoTracks()
TracksOf(stream, kind) == SelectSeq(stream.tracks, LAMBDA t : KindOf(t) = kind)

\* An RTCRtpSender: the kind of its transceiver and the track it sends.
Sender(kind, track) == [kind |-> kind, track |-> track]

Least(S) == CHOOSE x \in S : \A y \in S : x <= y

\* createPeerConnection, step 2: every track of the local stream goes to the
\* first transceiver of its kind whose sender has no track, and with
\* pc.addTrack to a new sender when there is none.
RECURSIVE AttachTracks(_, _)
AttachTracks(ss, tracks) ==
    IF tracks = <<>> THEN ss
    ELSE LET t == Head(tracks)
             free == {i \in 1..Len(ss) : ss[i].track = NoTrack /\ ss[i].kind = KindOf(t)}
         IN  AttachTracks(IF free # {} THEN [ss EXCEPT ![Least(free)].track = t]
                                       ELSE Append(ss, Sender(KindOf(t), t)),
                          Tail(tracks))

\* createPeerConnection, steps 1 and 2: an audio and a video transceiver, then
\* the tracks of the local stream, if there is one.
CreateSenders(stream) ==
    AttachTracks(<<Sender("audio", NoTrack), Sender("video", NoTrack)>>, stream.tracks)

\* emitMediaState(type, enabled), and the two screen-share events.
MediaEvent(type, enabled) == [type |-> type, enabled |-> enabled]

\* joinRoom's stream: getUserMedia({video: isCamOn, audio: isMicOn}) is called
\* when one of the two is on; what it did not give is a placeholder.
InitialStream(cam, mic, granted) ==
    LET got == (cam \/ mic) /\ granted
    IN  Stream(<<IF got /\ mic THEN MicTrack ELSE SilentTrack,
                 IF got /\ cam THEN CameraTrack ELSE BlackTrack>>)

\* joinRoom's "Broadcast initial state".
InitialReport(cam, mic) ==
    <<MediaEvent("camera", cam), MediaEvent("mic", mic), MediaEvent("screen", FALSE)>>

\* A screen capture: its track is "live", "stopped" (track.stop(), which
\* fires no event) or "ended" (from outside, which fires ended), and the
\* isCamOn that the stopScreenShare of its onended handler closes over
\* ("none" while no handler is set).
Capture(state, onended) == [state |-> state, onended |-> onended]

\* track.stop() on every track of the list.
Stopped(caps, tracks) ==
    [n \in 1..Len(caps) |->
        IF caps[n].state = "live" /\ \E i \in 1..Len(tracks) : tracks[i] = ScreenTrack(n)
        THEN Capture("stopped", caps[n].onended) ELSE caps[n]]

HookInit ==
    /\ isMicOn = [c \in Clients |-> FALSE]
    /\ isCamOn = [c \in Clients |-> TRUE]
    /\ isScreenSharing = [c \in Clients |-> FALSE]
    /\ localStream = [c \in Clients |-> NoStream]
    /\ senders = [c \in Clients |-> [p \in Clients |-> <<>>]]
    /\ captures = [c \in Clients |-> <<>>]
    /\ acquiring = [c \in Clients |-> <<>>]
    /\ replacing = [c \in Clients |-> <<>>]
    /\ devices = [c \in Clients |-> "granted"]
    /\ errors = [c \in Clients |-> 0]
    /\ mediaOps = 0
    /\ mediaLog = [s \in SocketIds |-> <<>>]
    /\ stage = [c \in Clients |-> "idle"]
    /\ inbox = [c \in Clients |-> <<>>]
    /\ peerConnections = [c \in Clients |-> [p \in Clients |-> NoPc]]
    /\ chain = [c \in Clients |-> [p \in Clients |-> <<>>]]
    /\ deadReneg = [c \in Clients |-> [p \in Clients |-> 0]]
    /\ makingOffer = [c \in Clients |-> [p \in Clients |-> "absent"]]
    /\ ignoreOffer = [c \in Clients |-> [p \in Clients |-> "absent"]]
    /\ pendingCandidates = [c \in Clients |-> [p \in Clients |-> NoQueue]]
    /\ accepted = [c \in Clients |-> [p \in Clients |-> <<>>]]
    /\ applied = [c \in Clients |-> [p \in Clients |-> <<>>]]
    /\ gone = [c \in Clients |-> [p \in Clients |-> FALSE]]
    /\ politeLog = [c \in Clients |-> [p \in Clients |-> <<>>]]
    /\ rolledBack = [c \in Clients |-> [p \in Clients |-> FALSE]]
    /\ candSent = 0
    /\ negotiations = [c \in Clients |-> 0]
    /\ replaced = 0
    /\ late = 0

(***************************************************************************)
(* The gateway under arbitrary client traffic.                             *)
(***************************************************************************)
GwInit ==
    /\ status = [s \in SocketIds |-> "closed"]
    /\ participants = <<>>
    /\ sioRooms = [s \in SocketIds |-> {}]
    /\ lastOp = NoOp
    /\ emitted = {}
    /\ leftCount = [s \in SocketIds |-> 0]
    /\ joinOrder = <<>>
    /\ told = [s \in SocketIds |-> {}]
    /\ HookInit

GwConnect == \E s \in SocketIds, ok \in BOOLEAN : HandleConnection(s, ok)

GwDisconnect == \E s \in SocketIds : HandleDisconnect(s)

GwLeaveRoom == \E s \in SocketIds : HandleLeaveRoom(s)

GwJoinRoom == \E s \in SocketIds, r \in RoomIds : HandleJoinRoom(s, r, NameOf(s))

GwRelay == \E k \in RelayKinds, s \in SocketIds, t \in TargetIds : HandleRelay(k, s, t, 1)

GwMute == \E s \in SocketIds, t \in TargetIds, m \in BOOLEAN : HandleMute(s, t, m)

\* What a handler sent to a socket.
DeliveriesTo(s) == {e \in emitted : e.to = s}

\* The sockets a set of deliveries announces as present: the subject of
\* user-joined and the entries of room-participants.
Announced(ds) ==
    {e.msg.sid : e \in {d \in ds : d.msg.ev = "user-joined"}}
    \cup UNION {{e.msg.list[i].socketId : i \in 1..Len(e.msg.list)} :
                   e \in {d \in ds : d.msg.ev = "room-participants"}}

\* The sockets a set of deliveries reports as gone.
Retracted(ds) == {e.msg.sid : e \in {d \in ds : d.msg.ev = "user-left"}}

\* The history of a gateway step, read off the handler that ran: user-left
\* is emitted when a leave-room or disconnect finds the socket in the map.
History ==
    LET c == lastOp'.client IN
    /\ leftCount' =
         IF lastOp'.op = "join-room" THEN [leftCount EXCEPT ![c] = 0]
         ELSE IF lastOp'.op \in {"leave-room", "disconnect"} /\ PHas(c)
              THEN [leftCount EXCEPT ![c] = Bump(@)]
              ELSE leftCount
    /\ joinOrder' =
         IF lastOp'.op = "join-room" THEN Append(Without(joinOrder, c), c)
         ELSE IF lastOp'.op \in {"leave-room", "disconnect"}
              THEN Without(joinOrder, c)
              ELSE joinOrder
    /\ told' =
         [t \in SocketIds |->
             IF status'[t] # "open" THEN {}
             ELSE (told[t] \cup Announced(DeliveriesTo(t)')) \ Retracted(DeliveriesTo(t)')]

\* The connection and room handlers, with their history.
MemNext ==
    \/ GwConnect /\ History /\ UNCHANGED <<hookVars, mediaVars>>
    \/ GwDisconnect /\ History /\ UNCHANGED <<hookVars, mediaVars>>
    \/ GwLeaveRoom /\ History /\ UNCHANGED <<hookVars, mediaVars>>
    \/ GwJoinRoom /\ History /\ UNCHANGED <<hookVars, mediaVars>>

SpecMembership == GwInit /\ [][MemNext]_vars

\* Every handler of the gateway, under arbitrary client traffic.
GwNext ==
    \/ GwConnect /\ UNCHANGED <<histVars, mediaVars, hookVars>>
    \/ GwDisconnect /\ UNCHANGED <<histVars, mediaVars, hookVars>>
    \/ GwLeaveRoom /\ UNCHANGED <<histVars, mediaVars, hookVars>>
    \/ GwJoinRoom /\ UNCHANGED <<histVars, mediaVars, hookVars>>
    \/ GwRelay /\ UNCHANGED <<histVars, mediaVars, hookVars>>
    \/ GwMute /\ UNCHANGED <<histVars, mediaVars, hookVars>>

SpecGateway == GwInit /\ [][GwNext]_vars

\* join-room takes any string for roomId, the id of a connection included:
\* rooms and connections share the names that server.to() addresses.
JoinNames == {"r1", "b"}

NsJoinRoom == \E s \in SocketIds, r \in JoinNames : HandleJoinRoom(s, r, NameOf(s))

\* The relay handlers with clients that pick their room names freely.
NsNext ==
    \/ GwConnect /\ UNCHANGED <<histVars, mediaVars, hookVars>>
    \/ GwDisconnect /\ UNCHANGED <<histVars, mediaVars, hookVars>>
    \/ NsJoinRoom /\ UNCHANGED <<histVars, mediaVars, hookVars>>
    \/ GwRelay /\ UNCHANGED <<histVars, mediaVars, hookVars>>

SpecNamespace == GwInit /\ [][NsNext]_vars

\* The readings of the gateway's clock, in milliseconds.
Clock == {1, 2}

\* What a client may send as chat-message: the three fields the page sends,
\* and a time of its own that a client is free to add.
ChatPayloads == [roomId : RoomIds, message : {"hi"}, userName : UserNames, stamp : {2, 9}]

GwChat == \E s \in SocketIds, d \in ChatPayloads, now \in Clock : HandleChatMessage(s, d, now)

\* The room handlers and the chat.
ChatNext ==
    \/ GwConnect /\ UNCHANGED <<histVars, mediaVars, hookVars>>
    \/ GwDisconnect /\ UNCHANGED <<histVars, mediaVars, hookVars>>
    \/ GwLeaveRoom /\ UNCHANGED <<histVars, mediaVars, hookVars>>
    \/ GwJoinRoom /\ UNCHANGED <<histVars, mediaVars, hookVars>>
    \/ GwChat /\ UNCHANGED <<histVars, mediaVars, hookVars>>

SpecChat == GwInit /\ [][ChatNext]_vars

\* emitMediaState's type
MediaTypes == {"camera", "mic", "screen"}

\* The media-state-change events held in the logs of the connections.
MaxReports == 1

Sum3(f) == f["a"] + f["ab"] + f["b"]

Reports == Sum3([s \in SocketIds |-> Len(mediaLog[s])])

\* A connection emits media-state-change{roomId, type, enabled}.
GwMediaState ==
    \E s \in SocketIds, type \in MediaTypes, enabled \in BOOLEAN :
        /\ Reports < MaxReports
        /\ HandleUnsubscribed("media-state-change", s, type, enabled)
        /\ mediaLog' = [mediaLog EXCEPT ![s] = Append(@, MediaEvent(type, enabled))]

\* The connection is gone, and what it reported with it.
GwDisconnectReports ==
    /\ GwDisconnect
    /\ mediaLog' = [mediaLog EXCEPT ![lastOp'.client] = <<>>]

\* The room handlers and the media-state events of the clients.
MediaStateNext ==
    \/ GwConnect /\ UNCHANGED <<histVars, mediaVars, hookVars>>
    \/ GwDisconnectReports
         /\ UNCHANGED <<histVars, hookVars, flagVars, localStream, senders, taskVars>>
    \/ GwJoinRoom /\ UNCHANGED <<histVars, mediaVars, hookVars>>
    \/ GwMediaState
         /\ UNCHANGED <<histVars, hookVars, flagVars, localStream, senders, taskVars>>

SpecMediaState == GwInit /\ [][MediaStateNext]_vars

\* The gateway handles every event it is sent: its steps are taken as long
\* as there is one to take.
SpecMediaStateFair == SpecMediaState /\ WF_vars(MediaStateNext)

(***************************************************************************)
(* Two pages running the hook.  An emit is handled by the gateway in the   *)
(* step that makes it; what the gateway sends to a page waits in the       *)
(* page's inbox, in order.  A page goes through one meeting: it joins on   *)
(* mount, and leaving navigates away, which removes the hook's listeners.  *)
(***************************************************************************)
MaxCand == 2

MaxNegotiations == 1

MaxReplace == 1

MaxLate == 1

Listening(c) == stage[c] \in {"idle", "joining", "joined"}

\* Mutant of Delivered: a delivery overtakes the events that wait.
DeliveredAhead(base) ==
    [c \in Clients |->
        LET ms == {e.msg : e \in {x \in emitted' : x.to = c}}
        IN  IF ms = {} \/ ~Listening(c)
            THEN base[c]
            ELSE <<CHOOSE m \in ms : TRUE>> \o base[c]]

\* The inboxes after the gateway's deliveries of this step.
Delivered(base) ==
    [c \in Clients |->
        LET ms == {e.msg : e \in {x \in emitted' : x.to = c}}
        IN  IF ms = {} \/ ~Listening(c)
            THEN base[c]
            ELSE Append(base[c], CHOOSE m \in ms : TRUE)]

Consumed(c) == [inbox EXCEPT ![c] = Tail(@)]

\* A step of the hook that emits nothing.
Quiet(base) ==
    /\ lastOp' = NoOp
    /\ emitted' = {}
    /\ inbox' = base
    /\ UNCHANGED <<status, participants, sioRooms>>

Next(ev, c) == stage[c] = "joined" /\ inbox[c] # <<>> /\ Head(inbox[c]).ev = ev

\* joinRoom from the point where getUserMedia has settled (or was not
\* called): cam and mic are the isCamOn and isMicOn of the render whose
\* joinRoom was called.  The three media-state-change events that follow
\* join-room reach no handler of the gateway.
JoinRoomWith(c, cam, mic, granted) ==
    /\ stage' = [stage EXCEPT ![c] = "joined"]
    /\ HandleJoinRoom(c, TheRoom, NameOf(c))
    /\ inbox' = Delivered(inbox)
    /\ localStream' = [localStream EXCEPT ![c] = InitialStream(cam, mic, granted)]
    /\ mediaLog' = [mediaLog EXCEPT ![c] = @ \o InitialReport(cam, mic)]

\* joinRoom: once per page; emits join-room.  Here the wait for getUserMedia
\* is part of the step (BeginJoin and Acquired take it apart).
JoinRoom(c) ==
    /\ stage[c] = "idle"
    /\ JoinRoomWith(c, isCamOn[c], isMicOn[c], devices[c] = "granted")
    /\ UNCHANGED <<histVars, flagVars, senders, taskVars, peerConnections, chain, deadReneg, makingOffer, ignoreOffer,
                   pendingCandidates, accepted, applied, gone, politeLog, rolledBack,
                   candSent, negotiations, replaced, late>>

\* on room-participants: callPeer for every listed participant.
OnRoomParticipants(c) ==
    /\ Next("room-participants", c)
    /\ LET listed == {e.socketId : e \in Range(Head(inbox[c]).list)} \cap Clients IN
       /\ peerConnections' = [peerConnections EXCEPT ![c] =
              [p \in Clients |-> IF p \in listed THEN NewPc ELSE @[p]]]
       /\ gone' = [gone EXCEPT ![c] = [p \in Clients |-> IF p \in listed THEN FALSE ELSE @[p]]]
       /\ senders' = [senders EXCEPT ![c] =
              [p \in Clients |-> IF p \in listed THEN CreateSenders(localStream[c]) ELSE @[p]]]
    /\ Quiet(Consumed(c))
    /\ UNCHANGED <<histVars, flagVars, localStream, taskVars, mediaLog, stage, chain, deadReneg, makingOffer, ignoreOffer,
                   pendingCandidates, accepted, applied, politeLog, rolledBack,
                   candSent, negotiations, replaced, late>>

\* on user-joined: callPeer for the newcomer.
OnUserJoined(c) ==
    /\ Next("user-joined", c)
    /\ LET p == Head(inbox[c]).sid IN
       /\ peerConnections' = [peerConnections EXCEPT ![c][p] = NewPc]
       /\ gone' = [gone EXCEPT ![c][p] = FALSE]
       /\ senders' = [senders EXCEPT ![c][p] = CreateSenders(localStream[c])]
    /\ Quiet(Consumed(c))
    /\ UNCHANGED <<histVars, flagVars, localStream, taskVars, mediaLog, stage, chain, deadReneg, makingOffer, ignoreOffer,
                   pendingCandidates, accepted, applied, politeLog, rolledBack,
                   candSent, negotiations, replaced, late>>

\* triggerRenegotiation up to its first await.
TriggerRenegotiation(c, started) ==
    /\ makingOffer' = [makingOffer EXCEPT ![c] =
           [p \in Clients |-> IF p \in started THEN "true" ELSE @[p]]]
    /\ chain' = [chain EXCEPT ![c] =
           [p \in Clients |-> IF p \in started THEN Append(@[p], "createOffer") ELSE @[p]]]

\* pc.onnegotiationneeded: the browser fires it in the stable state, with no
\* operation pending, when it finds the session out of date.
NegotiationNeeded(c, p) ==
    /\ stage[c] = "joined"
    /\ negotiations[c] < MaxNegotiations
    /\ peerConnections[c][p].open
    /\ peerConnections[c][p].sig = "stable"
    /\ chain[c][p] = <<>>
    /\ negotiations' = [negotiations EXCEPT ![c] = @ + 1]
    /\ TriggerRenegotiation(c, {p})
    /\ Quiet(inbox)
    /\ UNCHANGED <<histVars, mediaVars, stage, peerConnections, deadReneg, ignoreOffer,
                   pendingCandidates, accepted, applied, gone, politeLog, rolledBack,
                   candSent, replaced, late>>

\* replaceTrackInPeers: triggerRenegotiation on every connection of the map,
\* whatever its signaling state.
ReplaceTrack(c) ==
    /\ stage[c] = "joined"
    /\ replaced < MaxReplace
    /\ \E p \in Clients : peerConnections[c][p].open
    /\ replaced' = replaced + 1
    /\ TriggerRenegotiation(c, {p \in Clients : peerConnections[c][p].open})
    /\ Quiet(inbox)
    /\ UNCHANGED <<histVars, mediaVars, stage, peerConnections, deadReneg, ignoreOffer,
                   pendingCandidates, accepted, applied, gone, politeLog, rolledBack,
                   candSent, negotiations, late>>

\* Mutant of ShouldIgnoreOffer: a collision is ignored on either side.
ShouldIgnoreAnyCollision(isPolite, isMakingOffer, signalingState) ==
    isMakingOffer \/ signalingState # "stable"

\* Mutant of ShouldIgnoreOffer: the signaling state is not looked at.
ShouldIgnoreWhileMaking(isPolite, isMakingOffer, signalingState) ==
    ~isPolite /\ isMakingOffer

\* shouldIgnoreOffer = !isPolite && (isMakingOffer || signalingState !== 'stable')
ShouldIgnoreOffer(isPolite, isMakingOffer, signalingState) ==
    ~isPolite /\ (isMakingOffer \/ signalingState # "stable")

\* on offer, up to the await of setRemoteDescription.
OnOffer(c) ==
    /\ Next("offer", c)
    /\ LET from == Head(inbox[c]).sid
           pc == IF peerConnections[c][from].open THEN peerConnections[c][from] ELSE NewPc
           isPolite == IsPolite(c, from)
           shouldIgnoreOffer ==
               ShouldIgnoreOffer(isPolite, makingOffer[c][from] = "true", pc.sig)
       IN
       /\ peerConnections' = [peerConnections EXCEPT ![c][from] = pc]
       /\ senders' = IF peerConnections[c][from].open THEN senders
                     ELSE [senders EXCEPT ![c][from] = CreateSenders(localStream[c])]
       /\ ignoreOffer' = [ignoreOffer EXCEPT ![c][from] = ToFlag(shouldIgnoreOffer)]
       /\ politeLog' = [politeLog EXCEPT ![c][from] = Append(@, isPolite)]
       /\ chain' = IF shouldIgnoreOffer THEN chain
                   ELSE [chain EXCEPT ![c][from] = Append(@, "setRemoteOffer")]
    /\ Quiet(Consumed(c))
    /\ UNCHANGED <<histVars, flagVars, localStream, taskVars, mediaLog,
                   stage, deadReneg, makingOffer, pendingCandidates, accepted,
                   applied, gone, rolledBack, candSent, negotiations, replaced, late>>

\* on answer, up to the await of setRemoteDescription.
OnAnswer(c) ==
    /\ Next("answer", c)
    /\ LET from == Head(inbox[c]).sid IN
       chain' = IF peerConnections[c][from].open
                THEN [chain EXCEPT ![c][from] = Append(@, "setRemoteAnswer")]
                ELSE chain
    /\ Quiet(Consumed(c))
    /\ UNCHANGED <<histVars, mediaVars, stage, peerConnections, deadReneg, makingOffer, ignoreOffer,
                   pendingCandidates, accepted, applied, gone, politeLog, rolledBack,
                   candSent, negotiations, replaced, late>>

\* The body of the ice-candidate listener.
IceCandidate(c, from, n) ==
    IF ignoreOffer[c][from] = "true"
    THEN UNCHANGED <<pendingCandidates, accepted, applied>>
    ELSE /\ accepted' = [accepted EXCEPT ![c][from] = Append(@, n)]
         /\ IF peerConnections[c][from].open /\ RemoteSet(peerConnections[c][from])
            THEN /\ applied' = [applied EXCEPT ![c][from] = Append(@, n)]
                 /\ UNCHANGED pendingCandidates
            ELSE /\ pendingCandidates' = [pendingCandidates EXCEPT ![c][from] =
                        [has |-> TRUE, q |-> Append(@.q, n)]]
                 /\ UNCHANGED applied

OnIceCandidate(c) ==
    /\ Next("ice-candidate", c)
    /\ IceCandidate(c, Head(inbox[c]).sid, Head(inbox[c]).n)
    /\ Quiet(Consumed(c))
    /\ UNCHANGED <<histVars, mediaVars, stage, peerConnections, chain, deadReneg, makingOffer,
                   ignoreOffer, gone, politeLog, rolledBack,
                   candSent, negotiations, replaced, late>>

\* on user-left: close and forget the link.  A triggerRenegotiation that is
\* waiting on the closed connection is rejected later on.
OnUserLeft(c) ==
    /\ Next("user-left", c)
    /\ LET p == Head(inbox[c]).sid IN
       /\ peerConnections' = [peerConnections EXCEPT ![c][p] = NoPc]
       /\ chain' = [chain EXCEPT ![c][p] = <<>>]
       /\ deadReneg' = [deadReneg EXCEPT ![c][p] = @ + RenegsIn(chain[c][p])]
       /\ pendingCandidates' = [pendingCandidates EXCEPT ![c][p] = NoQueue]
       /\ makingOffer' = [makingOffer EXCEPT ![c][p] = "absent"]
       /\ ignoreOffer' = [ignoreOffer EXCEPT ![c][p] = "absent"]
       /\ gone' = [gone EXCEPT ![c][p] = TRUE]
       /\ accepted' = [accepted EXCEPT ![c][p] = <<>>]
       /\ applied' = [applied EXCEPT ![c][p] = <<>>]
       /\ politeLog' = [politeLog EXCEPT ![c][p] = <<>>]
       /\ rolledBack' = [rolledBack EXCEPT ![c][p] = FALSE]
       /\ senders' = [senders EXCEPT ![c][p] = <<>>]
    /\ Quiet(Consumed(c))
    /\ UNCHANGED <<histVars, flagVars, localStream, taskVars, mediaLog,
                   stage, candSent, negotiations, replaced, late>>

\* The connection's operations run one at a time, in the order they were
\* called; the handler that awaits one goes on when it is done.
Resolves(op, c, p) ==
    /\ stage[c] = "joined"
    /\ chain[c][p] # <<>>
    /\ Head(chain[c][p]) = op

\* The queue is given to addIceCandidate and deleted.
Flush(c, p) ==
    /\ applied' = [applied EXCEPT ![c][p] = @ \o pendingCandidates[c][p].q]
    /\ pendingCandidates' = [pendingCandidates EXCEPT ![c][p] = NoQueue]

\* triggerRenegotiation: createOffer is done, setLocalDescription(offer) called.
CreateOfferDone(c, p) ==
    /\ Resolves("createOffer", c, p)
    /\ chain' = [chain EXCEPT ![c][p] = Append(Tail(@), "setLocalOffer")]
    /\ Quiet(inbox)
    /\ UNCHANGED <<histVars, mediaVars, stage, peerConnections, deadReneg, makingOffer, ignoreOffer,
                   pendingCandidates, accepted, applied, gone, politeLog, rolledBack,
                   candSent, negotiations, replaced, late>>

\* triggerRenegotiation: setLocalDescription(offer) is done; the offer is
\* emitted unless it was rejected; finally makingOffer is set to false.
SetLocalOfferDone(c, p) ==
    /\ Resolves("setLocalOffer", c, p)
    /\ chain' = [chain EXCEPT ![c][p] = Tail(@)]
    /\ makingOffer' = [makingOffer EXCEPT ![c][p] = "false"]
    /\ IF peerConnections[c][p].sig \in {"stable", "have-local-offer"}
       THEN /\ peerConnections' = [peerConnections EXCEPT ![c][p].sig = "have-local-offer"]
            /\ HandleRelay("offer", c, p, 0)
            /\ inbox' = Delivered(inbox)
       ELSE /\ UNCHANGED peerConnections
            /\ Quiet(inbox)
    /\ UNCHANGED <<histVars, mediaVars, stage, deadReneg, ignoreOffer,
                   pendingCandidates, accepted, applied, gone, politeLog, rolledBack,
                   candSent, negotiations, replaced, late>>

\* offer listener: setRemoteDescription(offer) is done, rolling back an own
\* offer that was pending; createAnswer called.
SetRemoteOfferDone(c, p) ==
    /\ Resolves("setRemoteOffer", c, p)
    /\ peerConnections' = [peerConnections EXCEPT ![c][p].sig = "have-remote-offer"]
    /\ rolledBack' = [rolledBack EXCEPT ![c][p] =
                         @ \/ peerConnections[c][p].sig = "have-local-offer"]
    /\ chain' = [chain EXCEPT ![c][p] = Append(Tail(@), "createAnswer")]
    /\ Quiet(inbox)
    /\ UNCHANGED <<histVars, mediaVars, stage, deadReneg, makingOffer, ignoreOffer,
                   pendingCandidates, accepted, applied, gone, politeLog,
                   candSent, negotiations, replaced, late>>

\* offer listener: createAnswer is done or rejected.
CreateAnswerDone(c, p) ==
    /\ Resolves("createAnswer", c, p)
    /\ chain' = [chain EXCEPT ![c][p] =
                    IF peerConnections[c][p].sig = "have-remote-offer"
                    THEN Append(Tail(@), "setLocalAnswer") ELSE Tail(@)]
    /\ Quiet(inbox)
    /\ UNCHANGED <<histVars, mediaVars, stage, peerConnections, deadReneg, makingOffer, ignoreOffer,
                   pendingCandidates, accepted, applied, gone, politeLog, rolledBack,
                   candSent, negotiations, replaced, late>>

\* offer listener: setLocalDescription(answer) is done; the answer is
\* emitted and the queue flushed, unless it was rejected.
SetLocalAnswerDone(c, p) ==
    /\ Resolves("setLocalAnswer", c, p)
    /\ chain' = [chain EXCEPT ![c][p] = Tail(@)]
    /\ IF peerConnections[c][p].sig = "have-remote-offer"
       THEN /\ peerConnections' = [peerConnections EXCEPT
                   ![c][p].sig = "stable", ![c][p].role = "answerer"]
            /\ HandleRelay("answer", c, p, 0)
            /\ inbox' = Delivered(inbox)
            /\ Flush(c, p)
       ELSE /\ UNCHANGED <<peerConnections, applied, pendingCandidates>>
            /\ Quiet(inbox)
    /\ UNCHANGED <<histVars, mediaVars, stage, deadReneg, makingOffer, ignoreOffer,
                   accepted, gone, politeLog, rolledBack,
                   candSent, negotiations, replaced, late>>

\* Mutant of SetRemoteAnswerDone: the pending candidates are not flushed.
SetRemoteAnswerNoFlush(c, p) ==
    /\ Resolves("setRemoteAnswer", c, p)
    /\ chain' = [chain EXCEPT ![c][p] = Tail(@)]
    /\ IF peerConnections[c][p].sig = "have-local-offer"
       THEN peerConnections' = [peerConnections EXCEPT
                   ![c][p].sig = "stable", ![c][p].role = "offerer"]
       ELSE UNCHANGED peerConnections
    /\ Quiet(inbox)
    /\ UNCHANGED <<histVars, mediaVars, stage, deadReneg, makingOffer, ignoreOffer,
                   applied, pendingCandidates, accepted, gone, politeLog, rolledBack,
                   candSent, negotiations, replaced, late>>

\* answer listener: setRemoteDescription(answer) is done and the queue
\* flushed, unless it was rejected.
SetRemoteAnswerDone(c, p) ==
    /\ Resolves("setRemoteAnswer", c, p)
    /\ chain' = [chain EXCEPT ![c][p] = Tail(@)]
    /\ IF peerConnections[c][p].sig = "have-local-offer"
       THEN /\ peerConnections' = [peerConnections EXCEPT
                   ![c][p].sig = "stable", ![c][p].role = "offerer"]
            /\ Flush(c, p)
       ELSE UNCHANGED <<peerConnections, applied, pendingCandidates>>
    /\ Quiet(inbox)
    /\ UNCHANGED <<histVars, mediaVars, stage, deadReneg, makingOffer, ignoreOffer,
                   accepted, gone, politeLog, rolledBack,
                   candSent, negotiations, replaced, late>>

\* triggerRenegotiation on a closed connection: the awaited call is
\* rejected, and finally makingOffer is set to false.
RenegotiationRejected(c, p) ==
    /\ stage[c] \in {"joined", "left"}
    /\ deadReneg[c][p] > 0
    /\ deadReneg' = [deadReneg EXCEPT ![c][p] = @ - 1]
    /\ makingOffer' = [makingOffer EXCEPT ![c][p] = "false"]
    /\ Quiet(inbox)
    /\ UNCHANGED <<histVars, mediaVars, stage, peerConnections, chain, ignoreOffer,
                   pendingCandidates, accepted, applied, gone, politeLog, rolledBack,
                   candSent, negotiations, replaced, late>>

\* pc.onicecandidate: gathering starts with the local description.
SendCandidate(c, p) ==
    /\ stage[c] = "joined"
    /\ candSent < MaxCand
    /\ peerConnections[c][p].open
    /\ LocalSet(peerConnections[c][p])
    /\ candSent' = candSent + 1
    /\ HandleRelay("ice-candidate", c, p, candSent + 1)
    /\ inbox' = Delivered(inbox)
    /\ UNCHANGED <<histVars, mediaVars, stage, peerConnections, chain, deadReneg, makingOffer,
                   ignoreOffer, pendingCandidates, accepted, applied, gone, politeLog,
                   rolledBack, negotiations, replaced, late>>

\* leaveRoom, and the page navigating away: leave-room is emitted, every
\* connection closed and the map cleared; the other three maps are left.
LeaveRoom(c) ==
    /\ stage[c] = "joined"
    /\ stage' = [stage EXCEPT ![c] = "left"]
    /\ HandleLeaveRoom(c)
    /\ inbox' = Delivered([inbox EXCEPT ![c] = <<>>])
    /\ peerConnections' = [peerConnections EXCEPT ![c] = [p \in Clients |-> NoPc]]
    /\ chain' = [chain EXCEPT ![c] = [p \in Clients |-> <<>>]]
    /\ deadReneg' = [deadReneg EXCEPT ![c] =
                        [p \in Clients |-> @[p] + RenegsIn(chain[c][p])]]
    /\ senders' = [senders EXCEPT ![c] = [p \in Clients |-> <<>>]]
    /\ captures' = [captures EXCEPT ![c] = Stopped(@, localStream[c].tracks)]
    /\ localStream' = [localStream EXCEPT ![c] = NoStream]
    /\ UNCHANGED <<histVars, flagVars, acquiring, replacing, devices, errors, mediaOps, mediaLog,
                   makingOffer, ignoreOffer, pendingCandidates, accepted,
                   applied, gone, politeLog, rolledBack,
                   candSent, negotiations, replaced, late>>

\* The page's connection closes (the tab is closed, the network drops): the
\* gateway's handleDisconnect runs, and the page with its hook is no more.
Disconnect(c) ==
    /\ stage[c] # "closed"
    /\ stage' = [stage EXCEPT ![c] = "closed"]
    /\ HandleDisconnect(c)
    /\ inbox' = Delivered([inbox EXCEPT ![c] = <<>>])
    /\ peerConnections' = [peerConnections EXCEPT ![c] = [p \in Clients |-> NoPc]]
    /\ chain' = [chain EXCEPT ![c] = [p \in Clients |-> <<>>]]
    /\ deadReneg' = [deadReneg EXCEPT ![c] = [p \in Clients |-> 0]]
    /\ makingOffer' = [makingOffer EXCEPT ![c] = [p \in Clients |-> "absent"]]
    /\ ignoreOffer' = [ignoreOffer EXCEPT ![c] = [p \in Clients |-> "absent"]]
    /\ pendingCandidates' = [pendingCandidates EXCEPT ![c] = [p \in Clients |-> NoQueue]]
    /\ accepted' = [accepted EXCEPT ![c] = [p \in Clients |-> <<>>]]
    /\ applied' = [applied EXCEPT ![c] = [p \in Clients |-> <<>>]]
    /\ gone' = [gone EXCEPT ![c] = [p \in Clients |-> FALSE]]
    /\ politeLog' = [politeLog EXCEPT ![c] = [p \in Clients |-> <<>>]]
    /\ rolledBack' = [rolledBack EXCEPT ![c] = [p \in Clients |-> FALSE]]
    /\ isMicOn' = [isMicOn EXCEPT ![c] = FALSE]
    /\ isCamOn' = [isCamOn EXCEPT ![c] = TRUE]
    /\ isScreenSharing' = [isScreenSharing EXCEPT ![c] = FALSE]
    /\ localStream' = [localStream EXCEPT ![c] = NoStream]
    /\ senders' = [senders EXCEPT ![c] = [p \in Clients |-> <<>>]]
    /\ captures' = [captures EXCEPT ![c] = <<>>]
    /\ acquiring' = [acquiring EXCEPT ![c] = <<>>]
    /\ replacing' = [replacing EXCEPT ![c] = <<>>]
    /\ mediaLog' = [mediaLog EXCEPT ![c] = <<>>]
    /\ errors' = [errors EXCEPT ![c] = 0]
    /\ UNCHANGED <<histVars, devices, mediaOps, candSent, negotiations, replaced, late>>

\* A connection that has left its room is still open, and the gateway
\* relays whatever an open connection emits: a signaling message of a peer
\* can reach a page after the peer's user-left.
LateRelay(c, p) ==
    /\ stage[c] = "left"
    /\ late < MaxLate
    /\ p # c
    /\ late' = late + 1
    /\ \E kind \in RelayKinds : HandleRelay(kind, c, p, 0)
    /\ inbox' = Delivered(inbox)
    /\ UNCHANGED <<histVars, mediaVars, stage, peerConnections, chain, deadReneg, makingOffer,
                   ignoreOffer, pendingCandidates, accepted, applied, gone, politeLog,
                   rolledBack, candSent, negotiations, replaced>>

PeersInit ==
    /\ status = [s \in SocketIds |-> IF s \in Clients THEN "open" ELSE "closed"]
    /\ participants = <<>>
    /\ sioRooms = [s \in SocketIds |-> IF s \in Clients THEN {s} ELSE {}]
    /\ lastOp = NoOp
    /\ emitted = {}
    /\ leftCount = [s \in SocketIds |-> 0]
    /\ joinOrder = <<>>
    /\ told = [s \in SocketIds |-> {}]
    /\ HookInit

PeersNext ==
    \/ \E c \in Clients : JoinRoom(c)
    \/ \E c \in Clients : OnRoomParticipants(c)
    \/ \E c \in Clients : OnUserJoined(c)
    \/ \E c \in Clients : OnOffer(c)
    \/ \E c \in Clients : OnAnswer(c)
    \/ \E c \in Clients : OnIceCandidate(c)
    \/ \E c \in Clients : OnUserLeft(c)
    \/ \E c, p \in Clients : NegotiationNeeded(c, p)
    \/ \E c \in Clients : ReplaceTrack(c)
    \/ \E c, p \in Clients : CreateOfferDone(c, p)
    \/ \E c, p \in Clients : SetLocalOfferDone(c, p)
    \/ \E c, p \in Clients : SetRemoteOfferDone(c, p)
    \/ \E c, p \in Clients : CreateAnswerDone(c, p)
    \/ \E c, p \in Clients : SetLocalAnswerDone(c, p)
    \/ \E c, p \in Clients : SetRemoteAnswerDone(c, p)
    \/ \E c, p \in Clients : RenegotiationRejected(c, p)
    \/ \E c, p \in Clients : SendCandidate(c, p)
    \/ \E c \in Clients : LeaveRoom(c)
    \/ \E c \in Clients : Disconnect(c)
    \/ \E c, p \in Clients : LateRelay(c, p)

SpecPeers == PeersInit /\ [][PeersNext]_vars

\* The negotiation alone: the pages with no ice candidates travelling.
NegotiationNext ==
    \/ \E c \in Clients : JoinRoom(c)
    \/ \E c \in Clients : OnRoomParticipants(c)
    \/ \E c \in Clients : OnUserJoined(c)
    \/ \E c \in Clients : OnOffer(c)
    \/ \E c \in Clients : OnAnswer(c)
    \/ \E c \in Clients : OnUserLeft(c)
    \/ \E c, p \in Clients : NegotiationNeeded(c, p)
    \/ \E c \in Clients : ReplaceTrack(c)
    \/ \E c, p \in Clients : CreateOfferDone(c, p)
    \/ \E c, p \in Clients : SetLocalOfferDone(c, p)
    \/ \E c, p \in Clients : SetRemoteOfferDone(c, p)
    \/ \E c, p \in Clients : CreateAnswerDone(c, p)
    \/ \E c, p \in Clients : SetLocalAnswerDone(c, p)
    \/ \E c, p \in Clients : SetRemoteAnswerDone(c, p)
    \/ \E c, p \in Clients : RenegotiationRejected(c, p)
    \/ \E c \in Clients : LeaveRoom(c)
    \/ \E c \in Clients : Disconnect(c)

SpecNegotiation == PeersInit /\ [][NegotiationNext]_vars

\* The first negotiation of a link with its ice candidates: the pages join,
\* negotiate and leave; no track is replaced and no connection drops.
RoutingNext ==
    \/ \E c \in Clients : JoinRoom(c)
    \/ \E c \in Clients : OnRoomParticipants(c)
    \/ \E c \in Clients : OnUserJoined(c)
    \/ \E c \in Clients : OnOffer(c)
    \/ \E c \in Clients : OnAnswer(c)
    \/ \E c \in Clients : OnIceCandidate(c)
    \/ \E c \in Clients : OnUserLeft(c)
    \/ \E c, p \in Clients : NegotiationNeeded(c, p)
    \/ \E c, p \in Clients : CreateOfferDone(c, p)
    \/ \E c, p \in Clients : SetLocalOfferDone(c, p)
    \/ \E c, p \in Clients : SetRemoteOfferDone(c, p)
    \/ \E c, p \in Clients : CreateAnswerDone(c, p)
    \/ \E c, p \in Clients : SetLocalAnswerDone(c, p)
    \/ \E c, p \in Clients : SetRemoteAnswerDone(c, p)
    \/ \E c, p \in Clients : RenegotiationRejected(c, p)
    \/ \E c, p \in Clients : SendCandidate(c, p)
    \/ \E c \in Clients : LeaveRoom(c)

SpecRouting == PeersInit /\ [][RoutingNext]_vars

\* createOffer or setLocalDescription(offer) of a triggerRenegotiation is
\* rejected by the browser (OperationError): the catch logs, and finally
\* makingOffer is set to false.
RenegotiationFails(c, p) ==
    /\ Resolves("createOffer", c, p) \/ Resolves("setLocalOffer", c, p)
    /\ chain' = [chain EXCEPT ![c][p] = Tail(@)]
    /\ makingOffer' = [makingOffer EXCEPT ![c][p] = "false"]
    /\ Quiet(inbox)
    /\ UNCHANGED <<histVars, mediaVars, stage, peerConnections, deadReneg, ignoreOffer,
                   pendingCandidates, accepted, applied, gone, politeLog, rolledBack,
                   candSent, negotiations, replaced, late>>

\* createAnswer or setLocalDescription(answer) of the offer listener is
\* rejected by the browser after setRemoteDescription(offer) was applied:
\* the catch logs.
AnswerFails(c, p) ==
    /\ Resolves("createAnswer", c, p) \/ Resolves("setLocalAnswer", c, p)
    /\ peerConnections[c][p].sig = "have-remote-offer"
    /\ chain' = [chain EXCEPT ![c][p] = Tail(@)]
    /\ Quiet(inbox)
    /\ UNCHANGED <<histVars, mediaVars, stage, peerConnections, deadReneg, makingOffer,
                   ignoreOffer, pendingCandidates, accepted, applied, gone, politeLog,
                   rolledBack, candSent, negotiations, replaced, late>>

\* The negotiation with calls that the browser may reject.
FailureNext ==
    \/ NegotiationNext
    \/ \E c, p \in Clients : RenegotiationFails(c, p)
    \/ \E c, p \in Clients : AnswerFails(c, p)

SpecFailure == PeersInit /\ [][FailureNext]_vars

(***************************************************************************)
(* The media controls of the hook: toggleMic, toggleCam, startScreenShare, *)
(* stopScreenShare, the force-mute listener and the onended handler of a   *)
(* screen capture.  Every await of a control is a step of its own: the     *)
(* call waits in acquiring for getUserMedia / getDisplayMedia and in       *)
(* replacing for the replaceTrack promises of replaceTrackInPeers.  With   *)
(* no connection in the map Promise.all([]) is already resolved and the    *)
(* call goes on in the same step.  A state setter re-renders the page      *)
(* before the next click, so a click reads the current flags; a call that  *)
(* is waiting keeps the flags of the render it was made in.                *)
(***************************************************************************)
MaxMediaOps == 2

restVars == <<peerConnections, ignoreOffer, pendingCandidates, accepted, applied, gone,
              politeLog, rolledBack, candSent, negotiations, replaced, late>>

renegVars == <<chain, deadReneg, makingOffer>>

\* Array.from(peerConnections.current.entries())
OpenPeers(c) == {p \in Clients : peerConnections[c][p].open}

\* A call of a control that is waiting: the function, the isCamOn and
\* isMicOn of its render, the track it got and the connections whose
\* replaceTrack it waits for.
Task(fn, cam, mic, track, peers) ==
    [fn |-> fn, cam |-> cam, mic |-> mic, track |-> track, peers |-> peers]

Without1(seq, i) == SubSeq(seq, 1, i - 1) \o SubSeq(seq, i + 1, Len(seq))

\* replaceTrackInPeers' choice of the sender: the first sender whose track
\* has the kind, else the sender of the first transceiver whose receiver
\* has the kind; 0 when there is none.
FindSender(ss, kind) ==
    LET byTrack == {i \in 1..Len(ss) : ss[i].track # NoTrack /\ KindOf(ss[i].track) = kind}
        byReceiver == {i \in 1..Len(ss) : ss[i].kind = kind}
    IN  IF byTrack # {} THEN Least(byTrack)
        ELSE IF byReceiver # {} THEN Least(byReceiver) ELSE 0

\* Mutant of Attach: every swap goes through pc.addTrack.
AttachAlways(ss, kind, track) == Append(ss, Sender(kind, track))

\* replaceTrackInPeers on one connection, up to its await: pc.addTrack when
\* no sender was found.
Attach(ss, kind, track) ==
    IF FindSender(ss, kind) = 0 THEN Append(ss, Sender(kind, track)) ELSE ss

\* sender.replaceTrack(newTrack), when its promise resolves.
Replaced(ss, kind, track) ==
    LET i == FindSender(ss, kind)
    IN  IF i = 0 THEN ss ELSE [ss EXCEPT ![i].track = track]

\* Mutant of Swap: the new track is added and the old ones stay.
SwapKeeping(stream, kind, track) ==
    IF stream.has THEN Stream(Append(stream.tracks, track)) ELSE stream

\* if (localStreamRef.current) { remove every track of the kind; addTrack }
Swap(stream, kind, track) ==
    IF stream.has
    THEN Stream(Append(SelectSeq(stream.tracks, LAMBDA t : KindOf(t) # kind), track))
    ELSE stream

\* socket.emit of media-state-change, screen-share-start or
\* screen-share-stop: the gateway subscribes to none of them.
EmitMedia(c, ev, type, enabled, base) ==
    /\ HandleUnsubscribed(ev, c, type, enabled)
    /\ inbox' = base
    /\ mediaLog' = [mediaLog EXCEPT ![c] = Append(@, MediaEvent(type, enabled))]

OnEnded(cam) == IF cam THEN "true" ELSE "false"

\* What a control does after `await replaceTrackInPeers(...)`; caps are the
\* captures as the call left them so far.
Finish(c, t, caps) ==
    LET video == TracksOf(localStream[c], "video") IN
    CASE t.fn = "toggleMic" ->
           /\ captures' = [captures EXCEPT ![c] = caps]
           /\ localStream' = [localStream EXCEPT ![c] = Swap(@, "audio", t.track)]
           /\ isMicOn' = [isMicOn EXCEPT ![c] = TRUE]
           /\ EmitMedia(c, "media-state-change", "mic", TRUE, inbox)
           /\ UNCHANGED <<isCamOn, isScreenSharing>>
      [] t.fn = "toggleCamOff" ->
           /\ captures' = [captures EXCEPT ![c] = caps]
           /\ localStream' = [localStream EXCEPT ![c] = Swap(@, "video", t.track)]
           /\ isCamOn' = [isCamOn EXCEPT ![c] = FALSE]
           /\ EmitMedia(c, "media-state-change", "camera", FALSE, inbox)
           /\ UNCHANGED <<isMicOn, isScreenSharing>>
      [] t.fn = "toggleCam" ->
           /\ captures' = [captures EXCEPT ![c] = Stopped(caps, video)]
           /\ localStream' = [localStream EXCEPT ![c] = Swap(@, "video", t.track)]
           /\ isCamOn' = [isCamOn EXCEPT ![c] = TRUE]
           /\ EmitMedia(c, "media-state-change", "camera", TRUE, inbox)
           /\ UNCHANGED <<isMicOn, isScreenSharing>>
      [] t.fn = "startScreenShare" ->
           /\ captures' = [captures EXCEPT ![c] =
                  [caps EXCEPT ![t.track.id].onended = OnEnded(t.cam)]]
           /\ localStream' = [localStream EXCEPT ![c] = Swap(@, "video", t.track)]
           /\ isScreenSharing' = [isScreenSharing EXCEPT ![c] = TRUE]
           /\ EmitMedia(c, "screen-share-start", "screen-share-start", TRUE, inbox)
           /\ UNCHANGED <<isMicOn, isCamOn>>
      [] t.fn \in {"stopScreenShare", "onended"} ->
           /\ captures' = [captures EXCEPT ![c] = Stopped(caps, video)]
           /\ localStream' = [localStream EXCEPT ![c] = Swap(@, "video", t.track)]
           /\ isScreenSharing' = [isScreenSharing EXCEPT ![c] = FALSE]
           /\ EmitMedia(c, "screen-share-stop", "screen-share-stop", t.cam, inbox)
           /\ UNCHANGED <<isMicOn, isCamOn>>
      [] OTHER ->
           /\ captures' = [captures EXCEPT ![c] = caps]
           /\ Quiet(inbox)
           /\ UNCHANGED <<flagVars, localStream, mediaLog>>

\* replaceTrackInPeers(kind, track) as called by a control that awaits it.
Begin(c, t, caps) ==
    LET peers == OpenPeers(c) IN
    /\ senders' = [senders EXCEPT ![c] =
           [p \in Clients |-> IF p \in peers THEN Attach(@[p], KindOf(t.track), t.track)
                                             ELSE @[p]]]
    /\ IF peers = {}
       THEN /\ Finish(c, t, caps)
            /\ UNCHANGED replacing
       ELSE /\ replacing' = [replacing EXCEPT ![c] = Append(@, [t EXCEPT !.peers = peers])]
            /\ captures' = [captures EXCEPT ![c] = caps]
            /\ Quiet(inbox)
            /\ UNCHANGED <<flagVars, localStream, mediaLog>>

\* handleMicOff with turnOff true: it does not await replaceTrackInPeers.
HandleMicOff(c, base) ==
    LET peers == OpenPeers(c) IN
    /\ senders' = [senders EXCEPT ![c] =
           [p \in Clients |-> IF p \in peers THEN Attach(@[p], "audio", SilentTrack)
                                             ELSE @[p]]]
    /\ replacing' = IF peers = {} THEN replacing
                    ELSE [replacing EXCEPT ![c] =
                             Append(@, Task("handleMicOff", isCamOn[c], isMicOn[c],
                                            SilentTrack, peers))]
    /\ localStream' = [localStream EXCEPT ![c] = Swap(@, "audio", SilentTrack)]
    /\ isMicOn' = [isMicOn EXCEPT ![c] = FALSE]
    /\ EmitMedia(c, "media-state-change", "mic", FALSE, base)
    /\ UNCHANGED <<isCamOn, isScreenSharing, captures>>

\* A call that has reached its await of getUserMedia / getDisplayMedia.
Awaits(c, fn, caps) ==
    /\ acquiring' = [acquiring EXCEPT ![c] =
           Append(@, Task(fn, isCamOn[c], isMicOn[c], NoTrack, {}))]
    /\ captures' = [captures EXCEPT ![c] = caps]
    /\ Quiet(inbox)
    /\ UNCHANGED <<flagVars, localStream, senders, replacing, mediaLog>>

\* The mic button.
ToggleMic(c) ==
    /\ Listening(c)
    /\ mediaOps < MaxMediaOps
    /\ mediaOps' = mediaOps + 1
    /\ IF isMicOn[c]
       THEN HandleMicOff(c, inbox) /\ UNCHANGED acquiring
       ELSE Awaits(c, "toggleMic", captures[c])
    /\ UNCHANGED <<histVars, devices, errors, stage, renegVars, restVars>>

\* A connection sends notify-mute for a page.
NotifyMute(c, p, muted) ==
    /\ mediaOps < MaxMediaOps
    /\ mediaOps' = mediaOps + 1
    /\ HandleMute(c, p, muted)
    /\ inbox' = Delivered(inbox)
    /\ UNCHANGED <<histVars, flagVars, localStream, senders, captures, acquiring,
                   replacing, devices, errors, mediaLog, stage, renegVars, restVars>>

\* on force-mute: handleMicOff(muted).
OnForceMute(c) ==
    /\ Listening(c)
    /\ inbox[c] # <<>>
    /\ Head(inbox[c]).ev = "force-mute"
    /\ IF Head(inbox[c]).flag
       THEN HandleMicOff(c, Consumed(c))
       ELSE /\ Quiet(Consumed(c))
            /\ UNCHANGED <<flagVars, localStream, senders, captures, replacing, mediaLog>>
    /\ UNCHANGED <<histVars, acquiring, devices, errors, mediaOps, stage, renegVars, restVars>>

\* The camera button.
ToggleCam(c) ==
    /\ Listening(c)
    /\ mediaOps < MaxMediaOps
    /\ mediaOps' = mediaOps + 1
    /\ IF isCamOn[c]
       THEN /\ Begin(c, Task("toggleCamOff", isCamOn[c], isMicOn[c], BlackTrack, {}),
                     Stopped(captures[c], TracksOf(localStream[c], "video")))
            /\ UNCHANGED acquiring
       ELSE Awaits(c, "toggleCam", captures[c])
    /\ UNCHANGED <<histVars, devices, errors, stage, renegVars, restVars>>

\* The screen button while isScreenSharing is false.
StartScreenShare(c) ==
    /\ Listening(c)
    /\ ~isScreenSharing[c]
    /\ mediaOps < MaxMediaOps
    /\ mediaOps' = mediaOps + 1
    /\ Awaits(c, "startScreenShare", captures[c])
    /\ UNCHANGED <<histVars, devices, errors, stage, renegVars, restVars>>

\* stopScreenShare of a render whose isCamOn is cam; by tells the call of
\* the button ("stopScreenShare") from the call of an onended handler
\* ("onended").
StopShare(c, cam, caps, by) ==
    IF cam
    THEN /\ acquiring' = [acquiring EXCEPT ![c] =
                Append(@, Task(by, cam, isMicOn[c], NoTrack, {}))]
         /\ captures' = [captures EXCEPT ![c] = caps]
         /\ Quiet(inbox)
         /\ UNCHANGED <<flagVars, localStream, senders, replacing, mediaLog>>
    ELSE /\ Begin(c, Task(by, cam, isMicOn[c], BlackTrack, {}), caps)
         /\ UNCHANGED acquiring

\* The screen button while isScreenSharing is true.
StopScreenShare(c) ==
    /\ Listening(c)
    /\ isScreenSharing[c]
    /\ mediaOps < MaxMediaOps
    /\ mediaOps' = mediaOps + 1
    /\ StopShare(c, isCamOn[c], captures[c], "stopScreenShare")
    /\ UNCHANGED <<histVars, devices, errors, stage, renegVars, restVars>>

\* The capture ends from outside (the browser's "Stop sharing", the shared
\* window closes): screenTrack.onended runs the stopScreenShare that
\* startScreenShare closed over.
ScreenEnded(c, n) ==
    /\ stage[c] # "closed"
    /\ mediaOps < MaxMediaOps
    /\ n \in 1..Len(captures[c])
    /\ captures[c][n].state = "live"
    /\ captures[c][n].onended # "none"
    /\ mediaOps' = mediaOps + 1
    /\ StopShare(c, captures[c][n].onended = "true",
                 [captures[c] EXCEPT ![n] = Capture("ended", @.onended)], "onended")
    /\ UNCHANGED <<histVars, devices, errors, stage, renegVars, restVars>>

\* joinRoom up to its await of getUserMedia.
BeginJoin(c) ==
    /\ stage[c] = "idle"
    /\ isCamOn[c] \/ isMicOn[c]
    /\ stage' = [stage EXCEPT ![c] = "joining"]
    /\ Awaits(c, "joinRoom", captures[c])
    /\ UNCHANGED <<histVars, devices, errors, mediaOps, renegVars, restVars>>

\* joinRoom with camera and mic off: getUserMedia is not called.
JoinRoomNow(c) ==
    /\ ~(isCamOn[c] \/ isMicOn[c])
    /\ JoinRoom(c)

\* Mutant of Rejected: the control has set its flag and reported it before
\* it asked for the device.
RejectedAfterReport(c, t) ==
    /\ errors' = [errors EXCEPT ![c] = @ + 1]
    /\ isMicOn' = [isMicOn EXCEPT ![c] = IF t.fn = "toggleMic" THEN TRUE ELSE @]
    /\ isCamOn' = [isCamOn EXCEPT ![c] = IF t.fn = "toggleCam" THEN TRUE ELSE @]
    /\ isScreenSharing' = [isScreenSharing EXCEPT ![c] =
           IF t.fn = "startScreenShare" THEN TRUE
           ELSE IF t.fn \in {"stopScreenShare", "onended"} THEN FALSE ELSE @]
    /\ EmitMedia(c, "media-state-change", t.fn, TRUE, inbox)
    /\ UNCHANGED <<localStream, senders, captures, replacing>>

\* The catch of toggleMic, toggleCam, startScreenShare and stopScreenShare
\* when the device is refused: console.error, and nothing else.
Rejected(c, t) ==
    /\ errors' = [errors EXCEPT ![c] = @ + 1]
    /\ Quiet(inbox)
    /\ UNCHANGED <<flagVars, localStream, senders, captures, replacing, mediaLog>>

\* getUserMedia / getDisplayMedia settles for a waiting call.  getUserMedia
\* resolves when the device is granted and rejects otherwise; the user may
\* cancel the picker of getDisplayMedia.  A rejection ends the control in
\* its catch, which only logs; joinRoom goes on with placeholders.
Acquired(c, i, ok) ==
    /\ i \in 1..Len(acquiring[c])
    /\ LET t == acquiring[c][i]
           video == TracksOf(localStream[c], "video")
       IN
       /\ t.fn = "startScreenShare" \/ ok = (devices[c] = "granted")
       /\ acquiring' = [acquiring EXCEPT ![c] = Without1(@, i)]
       /\ IF t.fn = "joinRoom"
          THEN /\ JoinRoomWith(c, t.cam, t.mic, ok)
               /\ UNCHANGED <<flagVars, senders, captures, replacing, errors>>
          ELSE /\ UNCHANGED stage
               /\ IF ~ok
                  THEN Rejected(c, t)
                  ELSE /\ UNCHANGED errors
                       /\ CASE t.fn = "toggleMic" ->
                              Begin(c, [t EXCEPT !.track = MicTrack], captures[c])
                         [] t.fn = "startScreenShare" ->
                              Begin(c, [t EXCEPT !.track = ScreenTrack(Len(captures[c]) + 1)],
                                    Stopped(Append(captures[c], Capture("live", "none")), video))
                         [] OTHER ->
                              Begin(c, [t EXCEPT !.track = CameraTrack], captures[c])
    /\ UNCHANGED <<histVars, devices, mediaOps, renegVars, restVars>>

\* The replaceTrack promises of a waiting replaceTrackInPeers settle (on a
\* connection closed meanwhile the sender is left alone), triggerRenegotiation
\* runs for each connection, and the control goes on.  The calls wait on
\* different promises and settle in any order.
ReplaceTrackDone(c, i) ==
    /\ i \in 1..Len(replacing[c])
    /\ LET t == replacing[c][i]
           live == t.peers \cap OpenPeers(c)
       IN
       /\ replacing' = [replacing EXCEPT ![c] = Without1(@, i)]
       /\ senders' = [senders EXCEPT ![c] =
              [p \in Clients |-> IF p \in live THEN Replaced(@[p], KindOf(t.track), t.track)
                                                ELSE @[p]]]
       /\ TriggerRenegotiation(c, live)
       /\ deadReneg' = [deadReneg EXCEPT ![c] =
              [p \in Clients |-> IF p \in t.peers \ live THEN @[p] + 1 ELSE @[p]]]
       /\ Finish(c, t, captures[c])
    /\ UNCHANGED <<histVars, acquiring, devices, errors, mediaOps, stage, restVars>>

\* The user grants or revokes the camera and microphone permission, or the
\* device is plugged in or out.
DeviceChange(c) ==
    /\ devices' = [devices EXCEPT ![c] = IF @ = "granted" THEN "denied" ELSE "granted"]
    /\ Quiet(inbox)
    /\ UNCHANGED <<histVars, flagVars, localStream, senders, captures, acquiring,
                   replacing, errors, mediaOps, mediaLog, hookVars>>

\* The page whose controls are used; the other page is its peer in the room.
\* The hooks of two pages share nothing but the gateway, which drops their
\* media events, so the controls of one page decide nothing on the other.
Presenter == "a"

MediaNext ==
    \/ \E c \in Clients : BeginJoin(c)
    \/ \E c \in Clients : JoinRoomNow(c)
    \/ \E c \in Clients : OnRoomParticipants(c)
    \/ \E c \in Clients : OnUserJoined(c)
    \/ \E c \in Clients : OnUserLeft(c)
    \/ \E c \in Clients : LeaveRoom(c)
    \/ ToggleMic(Presenter)
    \/ \E c \in Clients \ {Presenter}, m \in BOOLEAN : NotifyMute(c, Presenter, m)
    \/ \E c \in Clients : OnForceMute(c)
    \/ ToggleCam(Presenter)
    \/ StartScreenShare(Presenter)
    \/ StopScreenShare(Presenter)
    \/ \E c \in Clients : \E n \in 1..Len(captures[c]) : ScreenEnded(c, n)
    \/ \E c \in Clients : \E i \in 1..Len(acquiring[c]), ok \in BOOLEAN : Acquired(c, i, ok)
    \/ \E c \in Clients : \E i \in 1..Len(replacing[c]) : ReplaceTrackDone(c, i)
    \/ DeviceChange(Presenter)

\* The pages with their media controls; the negotiation that the swaps
\* start stays pending on the connections' chains.
SpecMedia == PeersInit /\ [][MediaNext]_vars

\* The pages with a making the offers (on negotiationneeded and after a
\* source swap) and ab answering; the candidates of ab and the messages ab
\* emits after it left travel to a.
AnswersNext ==
    \/ \E c \in Clients : JoinRoom(c)
    \/ \E c \in Clients : OnRoomParticipants(c)
    \/ \E c \in Clients : OnUserJoined(c)
    \/ \E c \in Clients : OnOffer(c)
    \/ \E c \in Clients : OnAnswer(c)
    \/ \E c \in Clients : OnIceCandidate(c)
    \/ \E c \in Clients : OnUserLeft(c)
    \/ \E p \in Clients : NegotiationNeeded(Presenter, p)
    \/ ReplaceTrack(Presenter)
    \/ \E c, p \in Clients : CreateOfferDone(c, p)
    \/ \E c, p \in Clients : SetLocalOfferDone(c, p)
    \/ \E c, p \in Clients : SetRemoteOfferDone(c, p)
    \/ \E c, p \in Clients : CreateAnswerDone(c, p)
    \/ \E c, p \in Clients : SetLocalAnswerDone(c, p)
    \/ \E c, p \in Clients : SetRemoteAnswerDone(c, p)
    \/ \E c, p \in Clients : RenegotiationRejected(c, p)
    \/ \E c \in Clients \ {Presenter} : SendCandidate(c, Presenter)
    \/ \E c \in Clients : LeaveRoom(c)
    \/ \E c \in Clients \ {Presenter} : LateRelay(c, Presenter)

SpecAnswers == PeersInit /\ [][AnswersNext]_vars

(***************************************************************************)
(* Properties of the gateway (SpecGateway).                                *)
(***************************************************************************)
LeaveOps == {"leave-room", "disconnect"}

\* The rooms whose broadcasts reach a socket.
RoomsDeliveredTo(s) == {r \in RoomIds : s \in InRoom(r)}

SocketIdsOf(list) == [i \in 1..Len(list) |-> list[i].socketId]

\* C4: a join-room from a socket that is already admitted is rejected:
\* the membership map is unchanged and the call emits nothing.
C4_RejoinRejected ==
    [][\A s \in SocketIds :
          (lastOp'.op = "join-room" /\ lastOp'.client = s /\ PHas(s))
              => (participants' = participants /\ emitted' = {})]_vars

\* C5: the rooms whose broadcasts reach a connected socket are at most one,
\* and that one is the room the participants map records for the socket.
C5_OneRoomPerSession ==
    \A s \in SocketIds :
        status[s] = "open" =>
            /\ Cardinality(RoomsDeliveredTo(s)) <= 1
            /\ RoomsDeliveredTo(s) \subseteq (IF PHas(s) THEN {PGet(s).roomId} ELSE {})

\* C6: on join-room, user-joined goes to exactly the sockets already in the
\* room, room-participants goes to the joiner only, and it lists exactly
\* those sockets in the order they joined.
C6_JoinFanOut ==
    lastOp.op = "join-room" =>
        LET c == lastOp.client
            already == MembersOf(lastOp.arg) \ {c}
            joined == {e \in emitted : e.msg.ev = "user-joined"}
            listed == {e \in emitted : e.msg.ev = "room-participants"}
        IN  /\ {e.to : e \in joined} = already
            /\ \A e \in joined : e.msg.sid = c
            /\ {e.to : e \in listed} = {c}
            /\ \A e \in listed :
                   SocketIdsOf(e.msg.list) = SelectSeq(joinOrder, LAMBDA s : s \in already)

\* C7: a leave-room or disconnect of a member emits user-left for it to every
\* other member of its room and removes it from the map; between two
\* join-rooms of a socket user-left is emitted for it at most once.
C7_UserLeftOnce ==
    [][/\ \A s \in SocketIds : leftCount'[s] <= 1
       /\ \A s \in SocketIds :
            (lastOp'.op \in LeaveOps /\ lastOp'.client = s /\ PHas(s)) =>
                /\ \A t \in MembersOf(PGet(s).roomId) \ {s} :
                       {e.msg : e \in DeliveriesTo(t)'} =
                           {UserEvent("user-left", s, PGet(s).userId, PGet(s).userName)}
                /\ s \notin {e.to : e \in emitted'}
                /\ ~PHas(s)'
                /\ leftCount'[s] = 1]_vars

\* C7 witness: a member left its room or disconnected, another member of
\* the room was sent user-left for it, and it is out of the map.
C7_Witness ==
    /\ lastOp.op \in LeaveOps
    /\ leftCount[lastOp.client] = 1
    /\ ~PHas(lastOp.client)
    /\ \E e \in emitted :
           /\ e.msg.ev = "user-left"
           /\ e.msg.sid = lastOp.client
           /\ PHas(e.to)

\* C8: a leave-room or disconnect of a socket that is in no room emits
\* nothing and leaves the membership map as it was.
C8_RemoveNonMemberNoOp ==
    [][\A s \in SocketIds :
          (lastOp'.op \in LeaveOps /\ lastOp'.client = s /\ ~PHas(s))
              => (emitted' = {} /\ participants' = participants)]_vars

\* C8 witness: a socket in no room left while another socket was in a room.
C8_Witness ==
    /\ lastOp.op \in LeaveOps
    /\ leftCount[lastOp.client] = 0
    /\ participants # <<>>
    /\ emitted = {}

\* C10: a relayed offer, answer, ice-candidate or notify-mute reaches at most
\* one socket, the one whose id is targetSocketId, and a relayed
\* fromSocketId is the sender's id.
C10_RelayPointToPoint ==
    lastOp.op \in RelayKinds \cup {"notify-mute"} =>
        /\ Cardinality(emitted) <= 1
        /\ \A e \in emitted :
               /\ e.to = lastOp.arg
               /\ lastOp.op \in RelayKinds => e.msg.sid = lastOp.client

\* C11: an offer, answer or ice-candidate whose target is the id of a session
\* that is not connected is delivered to no session.
C11_UnreachableTargetDropped ==
    (/\ lastOp.op \in RelayKinds
     /\ lastOp.arg \in SocketIds
     /\ status[lastOp.arg] = "closed")
        => emitted = {}

\* The sender of the chat-message handled last is recorded in the room it named.
ChatFromMember ==
    /\ lastOp.op = "chat-message"
    /\ PHas(lastOp.client)
    /\ PGet(lastOp.client).roomId = lastOp.arg

\* C12: a chat-message whose sender is not a member of the room it names is
\* delivered to no one.
C12_ChatOnlyFromMembers ==
    (lastOp.op = "chat-message" /\ ~ChatFromMember) => emitted = {}

\* C13: a chat-message of a member is delivered to every member of the room,
\* the sender included, and every delivery carries the one timestamp read
\* from the gateway's clock.
C13_ChatToAllSameTime ==
    ChatFromMember =>
        /\ \A m \in MembersOf(lastOp.arg) :
               \E d \in emitted : d.to = m /\ d.msg.ev = "chat-message"
        /\ \E d \in emitted : d.to = lastOp.client
        /\ \A d \in emitted : d.msg.timestamp = ToISOString(lastOp.n)

\* A member's chat reached another member and itself, at a clock reading that
\* no client payload carries.
C13_Witness ==
    /\ ChatFromMember
    /\ lastOp.n = 1
    /\ Cardinality(MembersOf(lastOp.arg)) >= 2
    /\ Cardinality({d.to : d \in emitted}) >= 2

\* C14: when a member of a room has sent media-state-change, the members of
\* its room are eventually sent participant-media-state carrying its id.
C14_MediaStateBroadcast ==
    \A s \in SocketIds :
        (lastOp.op = "media-state-change" /\ lastOp.client = s /\ PHas(s))
            ~> (\E d \in emitted :
                    d.msg.ev = "participant-media-state" /\ d.msg.sid = s)

Greatest(S) == CHOOSE x \in S : \A y \in S : x >= y

\* The value a connection reported last for a type; false before any report.
LastOf(log, type) ==
    LET at == {i \in 1..Len(log) : log[i].type = type}
    IN  IF at = {} THEN FALSE ELSE log[Greatest(at)].enabled

\* The MediaState of a connection: what it reported last for each type.
Reported(s) ==
    [camera |-> LastOf(mediaLog[s], "camera"), mic |-> LastOf(mediaLog[s], "mic"),
     screen |-> LastOf(mediaLog[s], "screen")]

\* The joiner's view of a listed participant:
\* p.mediaState || { camera: false, mic: false, screen: false }
ViewOf(p) ==
    IF "mediaState" \in DOMAIN p THEN p.mediaState
    ELSE [camera |-> FALSE, mic |-> FALSE, screen |-> FALSE]

\* C15: the room-participants list sent to a joiner gives, for every member
\* listed, the media state that member reported last.
C15_ListCarriesMediaState ==
    lastOp.op = "join-room" =>
        \A d \in emitted :
            d.msg.ev = "room-participants" =>
                \A i \in 1..Len(d.msg.list) :
                    ViewOf(d.msg.list[i]) = Reported(d.msg.list[i].socketId)

(***************************************************************************)
(* Properties of the hook (SpecPeers).                                     *)
(***************************************************************************)
Links == {l \in Clients \X Clients : l[1] # l[2]}

\* The step is the listener of c handling an event ev that came from p.
Handles(ev, c, p) ==
    /\ Next(ev, c)
    /\ Head(inbox[c]).sid = p
    /\ stage'[c] = "joined"
    /\ inbox'[c] = Tail(inbox[c])

\* The step is the operation op of the connection of c to p being done.
Done(op, c, p) ==
    /\ Resolves(op, c, p)
    /\ stage'[c] = "joined"
    /\ inbox'[c] = inbox[c]
    /\ chain'[c][p] # chain[c][p]
    /\ Len(chain'[c][p]) <= Len(chain[c][p])

\* Of two distinct socket ids exactly one is polite toward the other.
ExactlyOnePolite == \A x, y \in SocketIds : x # y => (IsPolite(x, y) # IsPolite(y, x))

C3_CandidatesInOrder ==
    \A l \in Links :
        accepted[l[1]][l[2]] = applied[l[1]][l[2]] \o pendingCandidates[l[1]][l[2]].q

\* C9: an ice-candidate from a peer that arrives after the peer's user-left
\* is dropped: it is neither applied nor queued, and no state is created
\* for the peer.
C9_StrayDropped ==
    [][\A l \in Links :
          LET c == l[1]  p == l[2] IN
          (gone[c][p] /\ Handles("ice-candidate", c, p)) =>
              /\ peerConnections'[c][p] = peerConnections[c][p]
              /\ pendingCandidates'[c][p] = pendingCandidates[c][p]
              /\ applied'[c][p] = applied[c][p]
              /\ chain'[c][p] = chain[c][p]
              /\ makingOffer'[c][p] = makingOffer[c][p]
              /\ ignoreOffer'[c][p] = ignoreOffer[c][p]]_vars

(***************************************************************************)
(* Properties of the media controls (SpecMedia).                           *)
(***************************************************************************)
\* C16: no step of the media controls (mic and camera toggles, force-mute,
\* screen share start and stop) changes the number of senders of a
\* connection: a swap replaces the track of a sender that exists.
C16_SenderCountConstant ==
    [][\A c, p \in Clients :
          (peerConnections[c][p].open /\ peerConnections'[c][p].open) =>
              Len(senders'[c][p]) = Len(senders[c][p])]_vars

\* A swap has run to its end on a connection of the presenter that is open.
C16_Witness ==
    \E p \in Clients :
        /\ peerConnections[Presenter][p].open
        /\ chain[Presenter][p] # <<>>
        /\ senders[Presenter][p] # CreateSenders(InitialStream(TRUE, FALSE, TRUE))

\* C17: while a page is joined, its local stream holds exactly one audio
\* track and exactly one video track.
C17_OneAudioOneVideo ==
    \A c \in Clients :
        stage[c] = "joined" =>
            /\ localStream[c].has
            /\ Len(TracksOf(localStream[c], "audio")) = 1
            /\ Len(TracksOf(localStream[c], "video")) = 1

\* Joined, after a refused device and a screen share that replaced the video.
C17_Witness ==
    /\ stage[Presenter] = "joined"
    /\ errors[Presenter] > 0
    /\ TracksOf(localStream[Presenter], "video") = <<ScreenTrack(1)>>

\* A stopScreenShare called by an onended handler has not settled.
PendingEnded(acq, rep) ==
    \/ \E i \in 1..Len(acq) : acq[i].fn = "onended"
    \/ \E i \in 1..Len(rep) : rep[i].fn = "onended"

\* C18: when the revert that the external end of a screen capture started
\* has settled, the page does not report screen sharing and the video track
\* of its stream is the camera if the camera flag is on and the black
\* placeholder if it is off.
C18_EndedCaptureReverts ==
    [][\A c \in Clients :
          LET endsNow == \E n \in 1..Len(captures[c]) :
                            /\ n <= Len(captures'[c])
                            /\ captures[c][n].state = "live"
                            /\ captures'[c][n].state = "ended"
              before == endsNow \/ PendingEnded(acquiring[c], replacing[c])
              after == PendingEnded(acquiring'[c], replacing'[c])
          IN  (before /\ ~after) =>
                  /\ ~isScreenSharing'[c]
                  /\ localStream'[c].has =>
                        TracksOf(localStream'[c], "video") =
                            <<IF isCamOn'[c] THEN CameraTrack ELSE BlackTrack>>]_vars

\* C19: a step in which a control's device acquisition fails leaves the
\* flags, the tracks of the local stream and the tracks of every sender as
\* they were, and emits nothing.
C19_FailureLeavesStateAlone ==
    [][\A c \in Clients :
          errors'[c] > errors[c] =>
              /\ isMicOn'[c] = isMicOn[c]
              /\ isCamOn'[c] = isCamOn[c]
              /\ isScreenSharing'[c] = isScreenSharing[c]
              /\ localStream'[c] = localStream[c]
              /\ senders'[c] = senders[c]
              /\ mediaLog'[c] = mediaLog[c]
              /\ emitted' = {}]_vars

\* A device was refused to a control of a joined page with a connection.
C19_Witness ==
    /\ stage[Presenter] = "joined"
    /\ errors[Presenter] > 0
    /\ \E p \in Clients : peerConnections[Presenter][p].open

\* C20: in the step that completes joinRoom, the camera state sent to the
\* room is false when the video track is the black placeholder, and the
\* mic state is false when the audio track is the silent placeholder.
C20_PlaceholderReportedOff ==
    [][\A c \in Clients :
          (stage[c] # "joined" /\ stage'[c] = "joined") =>
              /\ TracksOf(localStream'[c], "video") = <<BlackTrack>>
                    => ~LastOf(mediaLog'[c], "camera")
              /\ TracksOf(localStream'[c], "audio") = <<SilentTrack>>
                    => ~LastOf(mediaLog'[c], "mic")]_vars

(***************************************************************************)
(* Properties of the negotiation (SpecFailure, SpecNegotiation).           *)
(***************************************************************************)
AnswerPending(ops) == \E i \in 1..Len(ops) : ops[i] \in {"createAnswer", "setLocalAnswer"}

OfferPending(ops) == \E i \in 1..Len(ops) : ops[i] \in RenegOps

\* C21: a failure in producing an offer or an answer leaves the link as it
\* was before the attempt: a link on which no answer is being produced is
\* not in have-remote-offer, where a later trigger's createOffer is
\* refused, and makingOffer is not true with no offer being produced.
C21_FailureRevertsLink ==
    \A l \in Links :
        LET c == l[1]  p == l[2] IN
        peerConnections[c][p].open =>
            /\ peerConnections[c][p].sig = "have-remote-offer" => AnswerPending(chain[c][p])
            /\ makingOffer[c][p] = "true" => OfferPending(chain[c][p])

\* C22: once a page has handled user-left for a peer, it holds no state for
\* the peer (no connection, no makingOffer or ignoreOffer entry, no queue
\* of candidates) in any later state, and it emits no offer and no answer
\* addressed to the peer.
C22_NoStateAfterUserLeft ==
    \A l \in Links :
        LET c == l[1]  p == l[2] IN
        gone[c][p] =>
            /\ ~peerConnections[c][p].open
            /\ makingOffer[c][p] = "absent"
            /\ ignoreOffer[c][p] = "absent"
            /\ ~pendingCandidates[c][p].has
            /\ ~(lastOp.op \in {"offer", "answer"} /\ lastOp.client = c /\ lastOp.arg = p)

(***************************************************************************)
(* Further properties of the gateway.                                      *)
(***************************************************************************)
\* C23: a connection whose token is missing or does not verify is closed in
\* handleConnection: nothing is emitted for it, and a closed connection is
\* in no room of the map and of Socket.IO and runs no handler but the
\* connect and disconnect hooks, so nothing is relayed or broadcast for it.
C23_RejectedConnectionInert ==
    /\ (lastOp.op = "connect" /\ lastOp.n = 0) =>
           (status[lastOp.client] = "closed" /\ emitted = {})
    /\ \A s \in SocketIds :
           status[s] = "closed" =>
               /\ ~PHas(s)
               /\ sioRooms[s] = {}
               /\ lastOp.client = s => lastOp.op \in {"connect", "disconnect"}

\* A connection was refused while another socket was in a room.
C23_Witness ==
    /\ lastOp.op = "connect"
    /\ lastOp.n = 0
    /\ \E s \in SocketIds \ {lastOp.client} : PHas(s)

\* C24: join-room requests are handled one at a time.  When a session joins
\* a room, each session the map holds in that room is in the joiner's
\* room-participants list and is sent user-joined for the joiner, and the
\* list holds nobody else; so of two sessions joining one room, the one
\* handled second lists the first, the first is told of the second, and the
\* first's own list did not hold the second.
C24_JoinsSerialized ==
    lastOp.op = "join-room" =>
        LET c == lastOp.client
            others == MembersOf(lastOp.arg) \ {c}
            lists == {e.msg : e \in {x \in DeliveriesTo(c) : x.msg.ev = "room-participants"}}
        IN  /\ Cardinality(lists) = 1
            /\ \A m \in lists : Range(SocketIdsOf(m.list)) = others
            /\ \A s \in others :
                   /\ [to |-> s, msg |-> UserEvent("user-joined", c, SubOf(c), NameOf(c))]
                          \in emitted
                   /\ \A e \in DeliveriesTo(s) : e.msg.ev # "room-participants"
            /\ \A e \in DeliveriesTo(c) : e.msg.ev # "user-joined"

\* C24 witness: the second of two sessions joined a room in which the first
\* is, while a third session is in another room.
C24_Witness ==
    /\ lastOp.op = "join-room"
    /\ MembersOf(lastOp.arg) \ {lastOp.client} # {}
    /\ \E s \in SocketIds : PHas(s) /\ PGet(s).roomId # lastOp.arg

\* The candidates of a sender that wait in a page's inbox, in inbox order.
Waiting(c, p) ==
    LET ms == SelectSeq(inbox[c], LAMBDA m : m.ev = "ice-candidate" /\ m.sid = p)
    IN  [i \in 1..Len(ms) |-> ms[i].n]

Increasing(seq) == \A i, j \in 1..Len(seq) : i < j => seq[i] < seq[j]

\* C25: the candidates a sender routed to a target reach the target in the
\* order the gateway accepted them: those the target's listener took in,
\* followed by those waiting in its inbox, are in the order of sending.
C25_RelayedInOrder ==
    \A l \in Links : Increasing(accepted[l[1]][l[2]] \o Waiting(l[1], l[2]))

\* C25 witness: a page took in a candidate of its peer while a later one of
\* the same peer waits behind an answer of that peer.
C25_Witness ==
    \E l \in Links :
        /\ accepted[l[1]][l[2]] # <<>>
        /\ Waiting(l[1], l[2]) # <<>>
        /\ \E m \in Range(inbox[l[1]]) : m.ev \in {"offer", "answer"} /\ m.sid = l[2]

\* C26: the renegotiation trigger that follows a source swap is idempotent.
\* A replaceTrack leaves the sender set as it was, and the trigger called
\* after it starts no offer and changes no link state (the makingOffer flags,
\* the pending operations and the connections); and a connection enters
\* have-local-offer from stable only.
C26_PlainSwapIsQuiet ==
    [][/\ replaced' # replaced =>
            /\ makingOffer' = makingOffer
            /\ chain' = chain
            /\ peerConnections' = peerConnections
       /\ \A l \in Links : LET c == l[1]  p == l[2] IN
            (peerConnections'[c][p].sig = "have-local-offer"
                /\ peerConnections[c][p].sig # "have-local-offer")
            => peerConnections[c][p].sig = "stable"]_vars

\* The host of a meeting is the user who created it.
HostOf(roomId) == IF roomId = "r1" THEN "p1" ELSE "p2"

\* C27: force-mute reaches a session only when the notify-mute came from
\* the host of the room the session is in: the sender and the target are in
\* one room of the map and the sender's user is that room's host.
C27_MuteOnlyByHost ==
    lastOp.op = "notify-mute" =>
        \A e \in emitted :
            /\ PHas(lastOp.client)
            /\ PHas(e.to)
            /\ PGet(e.to).roomId = PGet(lastOp.client).roomId
            /\ PGet(lastOp.client).userId = HostOf(PGet(lastOp.client).roomId)

\* C28: an impolite side that receives an offer while it is making one, or
\* while its connection is not stable, discards it: the ignore flag of the
\* peer is set, no remote description is applied (none is queued on the
\* connection), nothing is sent, and the connection, the makingOffer flags
\* and the pending candidates are as they were.
C28_ImpoliteDiscards ==
    [][\A l \in Links :
          LET c == l[1]  p == l[2]  pc == peerConnections[c][p] IN
          (/\ Handles("offer", c, p)
           /\ ~IsPolite(c, p)
           /\ (makingOffer[c][p] = "true" \/ pc.sig # "stable"))
              => /\ ignoreOffer'[c][p] = "true"
                 /\ chain' = chain
                 /\ emitted' = {}
                 /\ peerConnections'[c][p].sig = pc.sig
                 /\ peerConnections'[c][p].role = pc.role
                 /\ makingOffer' = makingOffer
                 /\ pendingCandidates' = pendingCandidates
                 /\ rolledBack' = rolledBack]_vars

\* C28 witness: an impolite side has discarded its peer's offer and still
\* has its own offer out, unanswered.
C28_Witness ==
    \E l \in Links :
        LET c == l[1]  p == l[2] IN
        /\ ~IsPolite(c, p)
        /\ ignoreOffer[c][p] = "true"
        /\ peerConnections[c][p].open
        /\ peerConnections[c][p].sig = "have-local-offer"
        /\ chain[c][p] = <<>>
        /\ inbox[c] = <<>>

\* The offer listener of c goes on with the peer's offer.
TakesUp(c, p) ==
    IsPolite(c, p)
        \/ ~(makingOffer[c][p] = "true" \/ peerConnections[c][p].sig # "stable")

\* C29: a side that is polite, or has no collision, takes the peer's offer
\* up: it applies it as the remote description, which rolls an own offer
\* back; it produces one answer, sets it, is stable then and sends that one
\* answer to the offerer; and the pending candidates of the peer are flushed
\* and the queue emptied in that step, not before.
C29_OfferAnswered ==
    [][\A l \in Links :
          LET c == l[1]  p == l[2]  pc == peerConnections[c][p] IN
          /\ (Handles("offer", c, p) /\ TakesUp(c, p)) =>
                 /\ chain'[c][p] = Append(chain[c][p], "setRemoteOffer")
                 /\ ignoreOffer'[c][p] = "false"
                 /\ emitted' = {}
                 /\ pendingCandidates' = pendingCandidates
          /\ Done("setRemoteOffer", c, p) =>
                 /\ peerConnections'[c][p].sig = "have-remote-offer"
                 /\ pc.sig = "have-local-offer" => rolledBack'[c][p]
                 /\ chain'[c][p] = Append(Tail(chain[c][p]), "createAnswer")
                 /\ emitted' = {}
                 /\ pendingCandidates' = pendingCandidates
          /\ Done("createAnswer", c, p) =>
                 /\ chain'[c][p] = Append(Tail(chain[c][p]), "setLocalAnswer")
                 /\ emitted' = {}
                 /\ pendingCandidates' = pendingCandidates
          /\ Done("setLocalAnswer", c, p) =>
                 /\ peerConnections'[c][p].sig = "stable"
                 /\ peerConnections'[c][p].role = "answerer"
                 /\ emitted' = ToAll({p} \cap {s \in SocketIds : status[s] = "open"},
                                     RelayEvent("answer", c, 0))
                 /\ applied'[c][p] = applied[c][p] \o pendingCandidates[c][p].q
                 /\ pendingCandidates'[c][p] = NoQueue]_vars

\* Nothing is under way on the link of c and p: both pages are in the room
\* with their connections open, no event waits in an inbox, no operation is
\* pending on a connection and no offer is being made.
AtRest(c, p) ==
    /\ stage[c] = "joined" /\ stage[p] = "joined"
    /\ peerConnections[c][p].open /\ peerConnections[p][c].open
    /\ inbox[c] = <<>> /\ inbox[p] = <<>>
    /\ chain[c][p] = <<>> /\ chain[p][c] = <<>>
    /\ makingOffer[c][p] # "true" /\ makingOffer[p][c] # "true"

\* C30: offers that cross on a link do not leave it stuck.  Once the polite
\* side has rolled its own offer back for the peer's, the link comes to rest
\* only with both sides stable: no side is left in have-local-offer with
\* nothing on the way that could answer it.
C30_GlareResolves ==
    \A l \in Links : LET c == l[1]  p == l[2] IN
        (IsPolite(c, p) /\ rolledBack[c][p] /\ AtRest(c, p)) =>
            /\ peerConnections[c][p].sig = "stable"
            /\ peerConnections[p][c].sig = "stable"

\* C31: an answer is applied only in have-local-offer; the connection is
\* stable then and the pending candidates of the peer are flushed.  The
\* answer listener itself only calls setRemoteDescription, and for a peer
\* with no connection it does nothing; an answer whose setRemoteDescription
\* finds any other state changes nothing of the link.
C31_AnswerApplied ==
    [][\A l \in Links :
          LET c == l[1]  p == l[2]  pc == peerConnections[c][p] IN
          /\ Handles("answer", c, p) =>
                 /\ chain'[c][p] = IF pc.open THEN Append(chain[c][p], "setRemoteAnswer")
                                   ELSE chain[c][p]
                 /\ UNCHANGED <<peerConnections, pendingCandidates, applied, makingOffer,
                                ignoreOffer>>
          /\ Done("setRemoteAnswer", c, p) =>
                 IF pc.sig = "have-local-offer"
                 THEN /\ peerConnections'[c][p].sig = "stable"
                      /\ applied'[c][p] = applied[c][p] \o pendingCandidates[c][p].q
                      /\ pendingCandidates'[c][p] = NoQueue
                 ELSE UNCHANGED <<peerConnections, pendingCandidates, applied, makingOffer,
                                  ignoreOffer>>]_vars

\* C31 witness: an offerer applied the answer and is stable, the candidates
\* it had taken in before are applied, and its queue is gone.
C31_Witness ==
    \E l \in Links :
        LET c == l[1]  p == l[2] IN
        /\ peerConnections[c][p].open
        /\ peerConnections[c][p].sig = "stable"
        /\ peerConnections[c][p].role = "offerer"
        /\ applied[c][p] # <<>>
        /\ ~pendingCandidates[c][p].has
        /\ chain[c][p] = <<>>

\* C32: while a local offer for a peer is being produced (createOffer or
\* setLocalDescription(offer) of triggerRenegotiation is pending on the
\* connection), makingOffer for that peer is true, also when two triggers for
\* the peer overlap.
C32_MakingOfferWhileOffering ==
    \A l \in Links :
        LET c == l[1]  p == l[2] IN
        (/\ stage[c] = "joined"
         /\ peerConnections[c][p].open
         /\ OfferPending(chain[c][p])) => makingOffer[c][p] = "true"

\* C33: an inbound offer that finds the receiver with no offer of its own
\* outstanding (not making an offer and not in have-local-offer) is not
\* ignored, whatever the receiver's politeness: the listener records
\* ignoreOffer = false and goes on to setRemoteDescription, also when an
\* earlier offer of the same peer is still being processed (have-remote-offer).
C33_NoOwnOfferNoIgnore ==
    [][\A l \in Links :
          LET c == l[1]  p == l[2] IN
          (/\ Handles("offer", c, p)
           /\ makingOffer[c][p] # "true"
           /\ peerConnections[c][p].sig # "have-local-offer") =>
              /\ ignoreOffer'[c][p] = "false"
              /\ chain'[c][p] = Append(chain[c][p], "setRemoteOffer")]_vars

\* C34: once a page has left the room (leaveRoom), none of its per-peer
\* state remains: every connection is closed and removed, and
\* pendingCandidates, makingOffer and ignoreOffer hold no entry.
C34_LeaveClearsLinkState ==
    \A c \in Clients :
        stage[c] = "left" =>
            \A p \in Clients :
                /\ ~peerConnections[c][p].open
                /\ ~pendingCandidates[c][p].has
                /\ makingOffer[c][p] = "absent"
                /\ ignoreOffer[c][p] = "absent"

\* C35: every chat-message the room is sent carries the display name its
\* sender registered when it joined the room.
C35_ChatUnderRegisteredName ==
    ChatFromMember =>
        \A d \in emitted : d.msg.userName = PGet(lastOp.client).userName

\* The negotiation of c with p that won a glare is complete on both sides:
\* p rolled its own offer back and is stable as the answerer, c is stable as
\* the offerer, and neither has an operation pending or an offer in the
\* making.
GlareResolved(c, p) ==
    /\ rolledBack[p][c]
    /\ peerConnections[c][p].open /\ peerConnections[p][c].open
    /\ peerConnections[c][p].sig = "stable" /\ peerConnections[c][p].role = "offerer"
    /\ peerConnections[p][c].sig = "stable" /\ peerConnections[p][c].role = "answerer"
    /\ chain[c][p] = <<>> /\ chain[p][c] = <<>>
    /\ makingOffer[c][p] # "true" /\ makingOffer[p][c] # "true"

\* C36: once the glare is resolved, a candidate of the peer whose offer was
\* ignored is taken in (applied or queued) by the side that ignored it.
C36_CandidatesAfterGlareKept ==
    [][\A l \in Links :
          LET c == l[1]  p == l[2] IN
          (/\ Handles("ice-candidate", c, p)
           /\ ignoreOffer[c][p] = "true"
           /\ GlareResolved(c, p)) =>
              accepted'[c][p] = Append(accepted[c][p], Head(inbox[c]).n)]_vars

\* The events the gateway sends to a room.
RoomScoped == {"user-joined", "user-left", "chat-message"}

\* C37: a connected session whose leave-room has been processed, and which
\* has not joined again, is sent no user-joined, user-left or chat-message.
C37_NothingAfterLeave ==
    \A s \in SocketIds :
        (status[s] = "open" /\ leftCount[s] = 1 /\ ~PHas(s)) =>
            \A e \in DeliveriesTo(s) : e.msg.ev \notin RoomScoped

\* C38: a connected session that was told of a session's presence (by
\* user-joined or by room-participants) is sent user-left for it when that
\* session leaves or disconnects: no connected session is left believing
\* present a session that is in no room any more.
C38_ToldOfLeave ==
    \A t \in SocketIds :
        status[t] = "open" => \A s \in told[t] : PHas(s)

\* C39: an offer, answer or ice-candidate is delivered only to a session
\* that the map records in the same room as the sender.
C39_RelayWithinRoom ==
    lastOp.op \in RelayKinds =>
        \A e \in emitted :
            /\ PHas(lastOp.client)
            /\ PHas(e.to)
            /\ PGet(e.to).roomId = PGet(lastOp.client).roomId

\* The video track of the page's local stream, the one replaceTrackInPeers
\* gave to the senders, is a capture of the screen.
VideoIsScreen(stream) ==
    /\ TracksOf(stream, "video") # <<>>
    /\ \A i \in 1..Len(TracksOf(stream, "video")) :
           TracksOf(stream, "video")[i].src = "screen"

\* C40: isScreenSharing is true exactly when the video track being sent is
\* the screen capture, and toggling the camera keeps it so: the step in which
\* toggleCam settles on a page that is sharing its screen does not leave
\* isScreenSharing true with a camera or placeholder track.
C40_SharingIffScreenTrack ==
    [][\A c \in Clients :
          (/\ stage[c] = "joined" /\ stage'[c] = "joined"
           /\ isScreenSharing[c]
           /\ VideoIsScreen(localStream[c])
           /\ isCamOn'[c] # isCamOn[c]) =>
              (isScreenSharing'[c] <=> VideoIsScreen(localStream'[c]))]_vars

====
